---- MODULE Spec2Model ----
(***************************************************************************)
(* MCP demo backend: the query-processing loop of MCPClient                *)
(* (mcp-demo-backend/mcp_client.py) and the elicitation wait loop of the   *)
(* websocket session (mcp-demo-backend/routes/websocket.py).               *)
(*                                                                         *)
(* Spec        the client: connect / cleanup and process_query, with the   *)
(*             Model Gateway and the Transport Session as environment;     *)
(*             SpecFair adds that a query in flight is resumed whenever    *)
(*             the call it awaits has come back.                           *)
(* SpecElicit  one elicitation exchange of a websocket session, with the   *)
(*             event-loop clock, the 30 s receive slices and the 120 s     *)
(*             deadlines.                                                  *)
(* SpecSampling one sampling exchange: the two sampling handlers, the     *)
(*             approval callback and the delegated Model Gateway call.     *)
(* SpecConn    the connection lifecycle of a client under its owner (a     *)
(*             websocket session or the HTTP routes), with the exit stack. *)
(* SpecServe   the coroutines serving a client: the message loop of a      *)
(*             websocket session up to its cleanup, and the HTTP /chat     *)
(*             requests on the shared client; SpecServeFair adds that the  *)
(*             event loop goes on running a coroutine that has left the    *)
(*             message loop.                                               *)
(* SpecSessions several websocket sessions served at a time, each with     *)
(*             the MCPClient its constructor creates.                      *)
(***************************************************************************)
EXTENDS Naturals, Integers, Sequences, FiniteSets, TLC

\* Bound: content blocks the Model Gateway emits during one query, all of its
\* responses together.
MaxBlocks == 3

\* Bound: HTTP /chat requests being served at a time.
MaxRequests == 2

\* Bounds: websocket sessions being served at a time, and the tool rounds of a
\* query of one of them.
MaxSessions == 2
MaxRounds == 1

\* Bounds of the elicitation model: exchanges per session, messages queued on
\* the socket, messages of other kinds the peer sends, and the largest step of
\* the clock (seconds).
MaxExchanges == 2
MaxInbox == 1
MaxOthers == 2
Step == 20

\* timeout = 120 in handle_elicitation; min(remaining, 30); wait_for(..., timeout=120)
ElicitTimeout == 120
SliceLength == 30
HandlerTimeout == 120

\* Environment alphabets.
Texts == {"a", "b"}
ToolUses == {[name |-> "get_forecast", input |-> "Denver"],
             [name |-> "plan_trip", input |-> "Denver"]}
Paths == {"weather.py", "notes.txt"}
Query == "What's the weather in Denver?"

NoSession == "none"
LiveSession == "live"
NoResponse == [stop_reason |-> "none", content |-> <<>>]
NoResult == [content |-> "<no response>", tool_calls |-> <<>>]
NoTimer == 0 - 1
NoCallbackResult == [action |-> "none"]
NoMessage == [type |-> "none"]
None == "<None>"
NoParams == [messages |-> <<>>, systemPrompt |-> None, maxTokens |-> 0]
NoRequest == [messages |-> <<>>, system_prompt |-> None, max_tokens |-> 0]
NoApproval == [approved |-> FALSE, response_text |-> None, returned |-> FALSE]
NoCompletion == [kind |-> "none"]
NoReport == [kind |-> "none", message |-> ""]
NoAttempt == [path |-> None, fail_at |-> "none", made |-> FALSE,
              before |-> [client |-> [session |-> NoSession, server_path |-> "",
                                      connected |-> FALSE, exit_stack |-> <<>>],
                          launched |-> 0]]
NoOperation == [name |-> "none", before |-> NoAttempt.before]
NoCatalog == "<no catalog>"
NoTurn == [msg |-> "none", outcome |-> "none", sent |-> <<>>]
NoWsSession == [at |-> "none", client |-> 0, messages |-> <<>>]

VARIABLES
  \* MCPClient fields
  session, server_path, connected, elicitation_available,
  \* process_query locals
  pc, callback, messages, tool_calls, final_text, response, idx,
  assistant_content, tool_results, result, raised_by, tool_path,
  \* what the collaborators observe (Model Gateway, Transport Session)
  model_calls, model_log, call_log, inflight, answered, next_id, had_session,
  elicited, pending,
  \* one websocket session's elicitation exchange
  e_pc, now, outer_deadline, start_time, slice_deadline, inbox, closed,
  exchange, callback_result, outcomes, resolved_by, prompts, dropped, answer,
  others_sent, consumed, dispatched,
  \* one sampling exchange: a completion the tool process asks of the client
  sampling_callback, s_pc, s_path, s_params, s_request, s_approval, gateway_log,
  s_completion, s_result,
  \* the owner of a client (a websocket session or the HTTP routes) and what
  \* the client holds for it
  surface, exit_stack, launched, handler, handler_result, attempt, op, op_result,
  \* the catalogs the launched subprocesses serve, the subprocess self.session
  \* talks to, the list requests connect sent, the catalog connect returned
  catalogs, bound, list_log, catalog,
  \* the path given to the last connect call on the client that returned
  connected_to,
  \* the coroutines serving a client: the websocket session's message loop and
  \* the process_query calls in flight
  ws_pc, q, peer_gone, cleanups, ws_turn,
  \* the websocket sessions being served at a time, and the MCPClient objects
  \* they refer to
  ws_sessions, clients

clientVars == <<session, server_path, connected, elicitation_available>>
queryVars == <<pc, callback, messages, tool_calls, final_text, response, idx,
               assistant_content, tool_results, result, raised_by, tool_path>>
envVars == <<model_calls, model_log, call_log, inflight, answered, next_id,
             had_session, elicited, pending>>
elicitVars == <<e_pc, now, outer_deadline, start_time, slice_deadline, inbox, closed,
                exchange, callback_result, outcomes, resolved_by, prompts, dropped,
                answer, others_sent, consumed, dispatched>>
samplingVars == <<sampling_callback, s_pc, s_path, s_params, s_request, s_approval,
                  gateway_log, s_completion, s_result>>
connVars == <<surface, exit_stack, launched, handler, handler_result, attempt, op,
              op_result, catalogs, bound, list_log, catalog, connected_to>>
serveVars == <<ws_pc, q, peer_gone, cleanups, ws_turn>>
sessVars == <<ws_sessions, clients>>
otherVars == <<clientVars, queryVars, envVars, samplingVars, connVars, serveVars, sessVars>>
vars == <<clientVars, queryVars, envVars, elicitVars, samplingVars, connVars, serveVars, sessVars>>

----------------------------------------------------------------------------
\* Pure helpers

\* str.join: the items with sep between consecutive items.
RECURSIVE Join(_, _)
Join(sep, seq) ==
  IF Len(seq) = 0 THEN ""
  ELSE IF Len(seq) = 1 THEN seq[1]
  ELSE seq[1] \o sep \o Join(sep, Tail(seq))

\* Mutant: the kind of script is not checked.
EndsWithAnySuffix(path) == path \in {"weather.py", "server.js", "notes.txt"}

\* server_path.endswith(('.py', '.js'))
EndsWithPyOrJs(path) == path \in {"weather.py", "server.js"}

TextBlock(t) == [type |-> "text", text |-> t]
ToolUseBlock(id, u) == [type |-> "tool_use", id |-> id, name |-> u.name, input |-> u.input]
\* Mutant: the record is made without the result of the call.
ToolCallNoResult(name, arguments, res) == [name |-> name, arguments |-> arguments, result |-> ""]

\* ToolCall(name=block.name, arguments=block.input, result=result_text)
ToolCall(name, arguments, res) == [name |-> name, arguments |-> arguments, result |-> res]
MCPResponse(content, calls) == [content |-> content, tool_calls |-> calls]

\* Mutant: the result block is tagged with another identifier than the block's.
ToolResultBlockWrongId(block, text) ==
  [type |-> "tool_result", tool_use_id |-> block.id + 1, content |-> text]

\* {"type": "tool_result", "tool_use_id": block.id, "content": result_text}
ToolResultBlock(block, text) ==
  [type |-> "tool_result", tool_use_id |-> block.id, content |-> text]

\* Mutant: tool_results.insert(0, ...)
AddToolResultFirst(results, block, text) ==
  <<[type |-> "tool_result", tool_use_id |-> block.id, content |-> text]>> \o results

\* tool_results.append(...)
AddToolResult(results, block, text) == Append(results, ToolResultBlock(block, text))

\* for block in response.content: if block.type == 'text': final_text.append(block.text)
RECURSIVE ExtractText(_)
ExtractText(content) ==
  IF content = <<>> THEN <<>>
  ELSE (IF Head(content).type = "text" THEN <<Head(content).text>> ELSE <<>>)
       \o ExtractText(Tail(content))

\* Mutant: " ".join(final_text)
FinalResponseSpaces(texts, calls) == [content |-> Join(" ", texts), tool_calls |-> calls]

\* MCPResponse(content="\n".join(final_text), tool_calls=tool_calls)
FinalResponse(texts, calls) == MCPResponse(Join("\n", texts), calls)

\* MCPResponse(content="Not connected to MCP server")
NotConnectedResponse == MCPResponse("Not connected to MCP server", <<>>)

\* Mutant: the early return is missing.
QueryGuardMissing == FALSE

\* if not self.session
QueryGuard == session = NoSession

----------------------------------------------------------------------------
\* Environment: what the Model Gateway and the Transport Session can answer

SeqsUpTo(S, n) == UNION {[1..k -> S] : k \in 0..n}

BlockShapes == [kind : {"text"}, text : Texts] \cup [kind : {"tool_use"}, use : ToolUses]

\* The gateway numbers the tool_use blocks it emits: identifiers are unique
\* within a query.
MakeContent(shape, base) ==
  [i \in 1..Len(shape) |->
     IF shape[i].kind = "text" THEN TextBlock(shape[i].text)
     ELSE ToolUseBlock(base + i, shape[i].use)]

HasToolUse(content) == \E i \in 1..Len(content) : content[i].type = "tool_use"

\* stop_reason "tool_use" comes with at least one tool_use block, "end_turn"
\* with none; a response cut at "max_tokens" may hold any blocks.
ModelResponses(base, budget) ==
  {r \in [stop_reason : {"tool_use", "end_turn", "max_tokens"},
          content : {MakeContent(s, base) : s \in SeqsUpTo(BlockShapes, budget)}] :
     /\ r.stop_reason = "tool_use" => HasToolUse(r.content)
     /\ r.stop_reason = "end_turn" => ~HasToolUse(r.content)}

\* session.call_tool: raises, or returns a CallToolResult (isError marks a
\* fault the server reports in-band; content may be empty).
DirectOutcomes ==
  {[kind |-> "raise"]} \cup
  [kind : {"result"}, isError : {FALSE}, content : {<<>>, <<"Sunny">>, <<"Sunny", "Windy">>}] \cup
  [kind : {"result"}, isError : {TRUE}, content : {<<"Error executing tool">>}]

\* EXAMPLE_CITIES (the city the queries are about)
ExampleCities == {"Denver"}

\* What elicitation_handler can hand back to a tool suspended in ctx.elicit().
ElicitOutcomes == {"accept", "decline", "cancel"}

\* Mutant: the tool goes on to plan the trip whatever the answer was.
PlanTripIgnoresAnswer(destination, action) ==
  IF destination \notin ExampleCities
    THEN "Sorry, '" \o destination \o "' is not in our database."
    ELSE "Trip Plan for " \o destination

\* plan_trip(destination, ctx): the text returned, given the action of the
\* result of ctx.elicit().
PlanTrip(destination, action) ==
  IF destination \notin ExampleCities
    THEN "Sorry, '" \o destination \o "' is not in our database."
    ELSE IF action = "decline"
      THEN "Trip planning cancelled - you declined to provide details."
    ELSE IF action = "cancel" THEN "Trip planning cancelled."
    ELSE "Trip Plan for " \o destination

\* The tool invocation reaches ctx.elicit().
Elicits(block) == block.name = "plan_trip" /\ block.input \in ExampleCities

\* FastMCPClient.call_tool: raises (ToolError for a fault the server reports,
\* or a transport fault), or returns the tool's text; elicit is the outcome the
\* elicitation handler gave the tool while it ran ("none": it did not ask).
FastMCPOutcomes ==
  {[kind |-> "raise"]} \cup [kind : {"result"}, elicit : ElicitOutcomes \cup {"none"}]

\* result.data of the FastMCP call for the tool of this block
FastMCPData(block, o) ==
  IF block.name = "plan_trip" THEN PlanTrip(block.input, o.elicit) ELSE "Sunny"

----------------------------------------------------------------------------
Init ==
  /\ session = NoSession
  /\ server_path = ""
  /\ connected = FALSE
  /\ elicitation_available \in BOOLEAN
  /\ pc = "idle"
  /\ callback = FALSE
  /\ messages = <<>>
  /\ tool_calls = <<>>
  /\ final_text = <<>>
  /\ response = NoResponse
  /\ idx = 0
  /\ assistant_content = <<>>
  /\ tool_results = <<>>
  /\ result = NoResult
  /\ raised_by = "none"
  /\ tool_path = "none"
  /\ model_calls = 0
  /\ model_log = <<>>
  /\ call_log = <<>>
  /\ inflight = {}
  /\ answered = {}
  /\ next_id = 0
  /\ had_session = FALSE
  /\ elicited = {}
  /\ pending = "none"
  /\ e_pc = "idle"
  /\ now = 0
  /\ outer_deadline = NoTimer
  /\ start_time = 0
  /\ slice_deadline = NoTimer
  /\ inbox = <<>>
  /\ closed = FALSE
  /\ exchange = 0
  /\ callback_result = NoCallbackResult
  /\ outcomes = <<>>
  /\ resolved_by = "none"
  /\ prompts = <<>>
  /\ dropped = 0
  /\ answer = NoMessage
  /\ others_sent = 0
  /\ consumed = {}
  /\ dispatched = {}
  /\ sampling_callback = FALSE
  /\ s_pc = "idle"
  /\ s_path = "none"
  /\ s_params = NoParams
  /\ s_request = NoRequest
  /\ s_approval = NoApproval
  /\ gateway_log = <<>>
  /\ s_completion = NoCompletion
  /\ s_result = NoCompletion
  /\ surface = "none"
  /\ exit_stack = <<>>
  /\ launched = 0
  /\ handler = "none"
  /\ handler_result = NoReport
  /\ attempt = NoAttempt
  /\ op = NoOperation
  /\ op_result = NoReport
  /\ catalogs = <<>>
  /\ bound = 0
  /\ list_log = <<>>
  /\ catalog = NoCatalog
  /\ connected_to = None
  /\ ws_pc = "none"
  /\ q = [t \in 0..MaxRequests |-> "none"]
  /\ peer_gone = FALSE
  /\ cleanups = 0
  /\ ws_turn = NoTurn
  /\ ws_sessions = [s \in 1..MaxSessions |-> NoWsSession]
  /\ clients = [i \in 1..MaxSessions |-> [session |-> NoSession, server_path |-> "",
                                           connected |-> FALSE, exit_stack |-> <<>>]]

----------------------------------------------------------------------------
\* MCPClient.connect / cleanup

\* connect(server_path): fail_at names the awaited step that raises, if any.
Connect(path, fail_at) ==
  /\ pc = "idle"
  /\ IF ~EndsWithPyOrJs(path) \/ fail_at = "stdio_client"
       THEN UNCHANGED <<session, server_path, connected>>
       ELSE /\ session' = LiveSession
            /\ IF fail_at = "initialize"
                 THEN UNCHANGED <<server_path, connected>>
                 ELSE server_path' = path /\ connected' = TRUE
  /\ UNCHANGED <<elicitation_available, queryVars, envVars, elicitVars, samplingVars, connVars, serveVars, sessVars>>

\* cleanup(): also reached from the HTTP /disconnect and /connect handlers while
\* a /chat query of the shared client is suspended at an await.
Cleanup ==
  /\ pc \in {"idle", "list_tools", "tool"}
  /\ pc # "idle" => ~callback
  /\ connected' = FALSE
  /\ session' = NoSession
  /\ server_path' = ""
  /\ UNCHANGED <<elicitation_available, queryVars, envVars, elicitVars, samplingVars, connVars, serveVars, sessVars>>

----------------------------------------------------------------------------
\* MCPClient.process_query

\* Entry: the not-connected return, or the transcript seed and the catalog fetch.
StartQuery(cb) ==
  /\ pc = "idle"
  /\ callback' = cb
  /\ had_session' = (session # NoSession)
  /\ IF QueryGuard
       THEN /\ result' = NotConnectedResponse
            /\ pc' = "returned"
            /\ UNCHANGED messages
       ELSE /\ messages' = <<[role |-> "user", content |-> Query]>>
            /\ pc' = "list_tools"
            /\ UNCHANGED result
  /\ UNCHANGED <<clientVars, tool_calls, final_text, response, idx, assistant_content,
                 tool_results, raised_by, tool_path, model_calls, model_log, call_log,
                 inflight, answered, next_id, elicited, pending, elicitVars, samplingVars, connVars, serveVars, sessVars>>

\* tools = await self.list_tools(): returns (an empty catalog once the session
\* is gone) or raises.
ListTools(ok) ==
  /\ pc = "list_tools"
  /\ IF ok \/ session = NoSession
       THEN pc' = "model" /\ UNCHANGED raised_by
       ELSE pc' = "raised" /\ raised_by' = "list_tools"
  /\ UNCHANGED <<clientVars, callback, messages, tool_calls, final_text, response, idx,
                 assistant_content, tool_results, result, tool_path, envVars, elicitVars, samplingVars, connVars, serveVars, sessVars>>

\* Mutant: the loop gives up once the transcript holds a round.
LoopContinuesOnce(r) ==
  r.stop_reason = "tool_use" /\ messages = <<[role |-> "user", content |-> Query]>>

\* while response.stop_reason == "tool_use"
LoopContinues(r) == r.stop_reason = "tool_use"

\* self.anthropic.messages.create(...) returns r.
ModelResponds(r) ==
  /\ pc = "model"
  /\ model_calls' = model_calls + 1
  /\ model_log' = Append(model_log, r)
  /\ next_id' = next_id + Len(r.content)
  /\ response' = r
  /\ IF LoopContinues(r)
       THEN /\ pc' = "round"
            /\ idx' = 1
            /\ assistant_content' = <<>>
            /\ tool_results' = <<>>
            /\ UNCHANGED <<final_text, result>>
       ELSE /\ final_text' = final_text \o ExtractText(r.content)
            /\ result' = FinalResponse(final_text', tool_calls)
            /\ pc' = "returned"
            /\ UNCHANGED <<idx, assistant_content, tool_results>>
  /\ UNCHANGED <<clientVars, callback, messages, tool_calls, raised_by, tool_path,
                 call_log, inflight, answered, had_session, elicited, pending, elicitVars, samplingVars, connVars, serveVars, sessVars>>

\* Mutant: the gateway fault is caught and turned into a response.
ModelFailsCaught ==
  /\ pc = "model"
  /\ model_calls' = model_calls + 1
  /\ pc' = "returned"
  /\ result' = [content |-> "Error: model call failed", tool_calls |-> tool_calls]
  /\ UNCHANGED <<clientVars, callback, messages, tool_calls, final_text, response, idx,
                 assistant_content, tool_results, raised_by, tool_path, model_log, call_log,
                 inflight, answered, next_id, had_session, elicited, pending, elicitVars, samplingVars, connVars, serveVars, sessVars>>

\* self.anthropic.messages.create(...) raises: nothing in process_query catches it.
ModelFails ==
  /\ pc = "model"
  /\ model_calls' = model_calls + 1
  /\ pc' = "raised"
  /\ raised_by' = "model"
  /\ UNCHANGED <<clientVars, callback, messages, tool_calls, final_text, response, idx,
                 assistant_content, tool_results, result, tool_path, model_log, call_log,
                 inflight, answered, next_id, had_session, elicited, pending, elicitVars, samplingVars, connVars, serveVars, sessVars>>

CurrentBlock == response.content[idx]

\* Mutant: the text of a round that also invokes tools is not kept.
HandleTextBlockDropsText ==
  /\ pc = "round"
  /\ idx <= Len(response.content)
  /\ response.content[idx].type = "text"
  /\ assistant_content' = Append(assistant_content, response.content[idx])
  /\ idx' = idx + 1
  /\ UNCHANGED <<clientVars, pc, callback, messages, tool_calls, final_text, response,
                 tool_results, result, raised_by, tool_path, envVars, elicitVars, samplingVars, connVars, serveVars, sessVars>>

\* for block in response.content: ... if block.type == 'text'
HandleTextBlock ==
  /\ pc = "round"
  /\ idx <= Len(response.content)
  /\ CurrentBlock.type = "text"
  /\ assistant_content' = Append(assistant_content, CurrentBlock)
  /\ final_text' = Append(final_text, CurrentBlock.text)
  /\ idx' = idx + 1
  /\ UNCHANGED <<clientVars, pc, callback, messages, tool_calls, response, tool_results,
                 result, raised_by, tool_path, envVars, elicitVars, samplingVars, connVars, serveVars, sessVars>>

\* Mutant: the loop stays on the block, which is invoked again.
RecordToolResultStays(text) ==
  /\ tool_calls' = Append(tool_calls, ToolCall(CurrentBlock.name, CurrentBlock.input, text))
  /\ tool_results' = AddToolResult(tool_results, CurrentBlock, text)
  /\ idx' = idx

\* The bookkeeping after call_tool has returned text for the current block.
RecordToolResult(text) ==
  /\ tool_calls' = Append(tool_calls, ToolCall(CurrentBlock.name, CurrentBlock.input, text))
  /\ tool_results' = AddToolResult(tool_results, CurrentBlock, text)
  /\ idx' = idx + 1

\* elif block.type == 'tool_use': await self.call_tool(...), up to its await.
\* call_tool answers "Error: Not connected" itself when there is no session.
DispatchTool ==
  /\ pc = "round"
  /\ idx <= Len(response.content)
  /\ CurrentBlock.type = "tool_use"
  /\ assistant_content' = Append(assistant_content, CurrentBlock)
  /\ call_log' = Append(call_log, CurrentBlock.id)
  /\ IF session = NoSession
       THEN /\ RecordToolResult("Error: Not connected")
            /\ UNCHANGED <<pc, tool_path, inflight>>
       ELSE /\ pc' = "tool"
            /\ tool_path' = IF callback /\ elicitation_available THEN "fastmcp" ELSE "direct"
            /\ inflight' = inflight \cup {CurrentBlock.id}
            /\ UNCHANGED <<tool_calls, tool_results, idx>>
  /\ UNCHANGED <<clientVars, callback, messages, final_text, response, result, raised_by,
                 model_calls, model_log, answered, next_id, had_session, elicited, pending, elicitVars, samplingVars, connVars, serveVars, sessVars>>

\* result.content[0].text if result.content else ""
DirectText(o) == IF o.content # <<>> THEN o.content[1] ELSE ""

\* The awaited call comes back: self.session.call_tool (direct) or
\* FastMCPClient(...).call_tool (elicitation path).  A raise is caught neither
\* in call_tool nor in process_query.
ToolReturns(o) ==
  /\ pc = "tool"
  /\ o \in (IF tool_path = "fastmcp" THEN FastMCPOutcomes ELSE DirectOutcomes)
  /\ (tool_path = "fastmcp" /\ o.kind = "result") =>
       /\ o.elicit # "none" <=> Elicits(CurrentBlock)
       /\ o.elicit = pending
  /\ pending' = "none"
  /\ elicited' = IF tool_path = "fastmcp" /\ o.kind = "result" /\ o.elicit # "none"
                   THEN elicited \cup {<<CurrentBlock.id, o.elicit>>}
                   ELSE elicited
  /\ inflight' = inflight \ {CurrentBlock.id}
  /\ answered' = answered \cup {CurrentBlock.id}
  /\ tool_path' = "none"
  /\ IF o.kind = "raise"
       THEN /\ pc' = "raised"
            /\ raised_by' = "call_tool"
            /\ UNCHANGED <<tool_calls, tool_results, idx>>
       ELSE /\ RecordToolResult(IF tool_path = "fastmcp" THEN FastMCPData(CurrentBlock, o)
                                     ELSE DirectText(o))
            /\ pc' = "round"
            /\ UNCHANGED raised_by
  /\ UNCHANGED <<clientVars, callback, messages, final_text, response, assistant_content,
                 result, model_calls, model_log, call_log, next_id, had_session, elicitVars, samplingVars, connVars, serveVars, sessVars>>

\* Mutant: the tool call is not awaited while its elicitation is pending.
ElicitationBeginsDetached ==
  /\ pc = "tool"
  /\ tool_path = "fastmcp"
  /\ Elicits(CurrentBlock)
  /\ pending = "none"
  /\ pending' = "pending"
  /\ pc' = "round"
  /\ idx' = idx + 1
  /\ UNCHANGED <<clientVars, callback, messages, tool_calls, final_text, response,
                 assistant_content, tool_results, result, raised_by, tool_path,
                 model_calls, model_log, call_log, inflight, answered, next_id,
                 had_session, elicited, elicitVars, samplingVars, connVars, serveVars, sessVars>>

\* The tool of the call in flight reaches ctx.elicit(): elicitation_handler
\* awaits the callback, and process_query stays at `await self.call_tool(...)`.
ElicitationBegins ==
  /\ pc = "tool"
  /\ tool_path = "fastmcp"
  /\ Elicits(CurrentBlock)
  /\ pending = "none"
  /\ pending' = "pending"
  /\ UNCHANGED <<clientVars, queryVars, model_calls, model_log, call_log, inflight,
                 answered, next_id, had_session, elicited, elicitVars, samplingVars,
                 connVars, serveVars, sessVars>>

\* elicitation_handler returns ElicitResult(action=...) to the tool.
ElicitationResolves(action) ==
  /\ pending = "pending"
  /\ pending' = action
  /\ UNCHANGED <<clientVars, queryVars, model_calls, model_log, call_log, inflight,
                 answered, next_id, had_session, elicited, elicitVars, samplingVars,
                 connVars, serveVars, sessVars>>

\* Mutant: the transcript is rebuilt from the query and the last round.
AppendRoundRebuilds(msgs, blocks, results) ==
  <<msgs[1], [role |-> "assistant", content |-> blocks],
    [role |-> "user", content |-> results]>>

\* messages.append(assistant turn); messages.append(user turn of tool results)
AppendRound(msgs, blocks, results) ==
  msgs \o <<[role |-> "assistant", content |-> blocks],
            [role |-> "user", content |-> results]>>

\* End of the for loop: both turns are appended and the gateway is called again.
EndRound ==
  /\ pc = "round"
  /\ idx > Len(response.content)
  /\ messages' = AppendRound(messages, assistant_content, tool_results)
  /\ pc' = "model"
  /\ UNCHANGED <<clientVars, callback, tool_calls, final_text, response, idx,
                 assistant_content, tool_results, result, raised_by, tool_path, envVars,
                 elicitVars, samplingVars, connVars, serveVars, sessVars>>

\* The caller has taken the response (or the fault); the locals are gone.
QueryOver ==
  /\ pc \in {"returned", "raised"}
  /\ pc' = "idle"
  /\ callback' = FALSE
  /\ messages' = <<>>
  /\ tool_calls' = <<>>
  /\ final_text' = <<>>
  /\ response' = NoResponse
  /\ idx' = 0
  /\ assistant_content' = <<>>
  /\ tool_results' = <<>>
  /\ result' = NoResult
  /\ raised_by' = "none"
  /\ tool_path' = "none"
  /\ model_calls' = 0
  /\ model_log' = <<>>
  /\ call_log' = <<>>
  /\ inflight' = {}
  /\ answered' = {}
  /\ next_id' = 0
  /\ had_session' = FALSE
  /\ elicited' = {}
  /\ pending' = "none"
  /\ UNCHANGED <<clientVars, elicitVars, samplingVars, connVars, serveVars, sessVars>>

Next ==
  \/ \E path \in Paths, fail_at \in {"none", "stdio_client", "initialize", "list_tools"} :
       Connect(path, fail_at)
  \/ Cleanup
  \/ \E cb \in BOOLEAN : StartQuery(cb)
  \/ \E ok \in BOOLEAN : ListTools(ok)
  \/ \E r \in ModelResponses(next_id, MaxBlocks - next_id) : ModelResponds(r)
  \/ ModelFails
  \/ HandleTextBlock
  \/ DispatchTool
  \/ \E o \in DirectOutcomes \cup FastMCPOutcomes : ToolReturns(o)
  \/ ElicitationBegins
  \/ \E action \in ElicitOutcomes : ElicitationResolves(action)
  \/ EndRound
  \/ QueryOver

Spec == Init /\ [][Next]_vars

\* The steps of a query in flight: the coroutine's own statements, and the
\* calls it awaits coming back (the gateway, the catalog fetch, the tool call
\* with the elicitation it may hold).
QueryStep ==
  \/ \E ok \in BOOLEAN : ListTools(ok)
  \/ \E r \in ModelResponses(next_id, MaxBlocks - next_id) : ModelResponds(r)
  \/ ModelFails
  \/ HandleTextBlock
  \/ DispatchTool
  \/ \E o \in DirectOutcomes \cup FastMCPOutcomes : ToolReturns(o)
  \/ ElicitationBegins
  \/ \E action \in ElicitOutcomes : ElicitationResolves(action)
  \/ EndRound

\* The event loop resumes process_query whenever the call it awaits has come
\* back, and every call it awaits comes back.
SpecFair == Spec /\ WF_vars(QueryStep)

----------------------------------------------------------------------------
\* The elicitation exchange of a websocket session:
\* MCPClient._call_tool_with_elicitation.elicitation_handler around
\* WebSocketSession.handle_elicitation.  The clock `now` is the event loop's
\* time read from the instant the handler is entered; only differences of
\* loop.time() are used by the code.

Min(a, b) == IF a <= b THEN a ELSE b

\* dict.get(key, default)
Get(d, key, default) == IF key \in DOMAIN d THEN d[key] ELSE default

ResponseActions == {"accept", "decline", "cancel", "later"}
OtherTypes == {"chat", "disconnect"}

Pending == e_pc \in {"sending", "waiting"}

\* Mutant: the handler waits 150 s for the callback.
HandlerDeadlineLate(t) == t + HandlerTimeout + SliceLength

\* asyncio.wait_for(callback(message, schema), timeout=120), armed at t
HandlerDeadline(t) == t + HandlerTimeout

\* Mutant: the data of the answer is handed on whatever the action is.
ElicitResultKeepsData(resp) ==
  LET action == Get(resp, "action", "cancel")
  IN  [action |-> IF action \in {"accept", "decline"} THEN action ELSE "cancel",
       content |-> Get(resp, "data", "{}")]

\* elicitation_handler's mapping of the callback's answer to an ElicitResult
ElicitResult(resp) ==
  LET action == Get(resp, "action", "cancel")
      data == Get(resp, "data", "{}")
  IN  IF action = "accept" THEN [action |-> "accept", content |-> data]
      ELSE IF action = "decline" THEN [action |-> "decline"]
      ELSE [action |-> "cancel"]

\* handle_elicitation's return for an elicitation_response message
ResponseDict(m) ==
  [action |-> Get(m, "action", "cancel"), data |-> Get(m, "data", "{}")]

TimeoutDict == [action |-> "cancel", reason |-> "timeout"]

\* The handler returns an ElicitResult to the suspended tool call: the outcome
\* of the exchange.  wait_for's timer and the receive slice are gone, and the
\* clock is no longer read.
Resolve(res, by) ==
  /\ outcomes' = Append(outcomes, [exchange |-> exchange, result |-> res])
  /\ resolved_by' = by
  /\ e_pc' = "resolved"
  /\ outer_deadline' = NoTimer
  /\ slice_deadline' = NoTimer
  /\ now' = 0
  /\ start_time' = 0

\* Mutant: every slice is 30 seconds long.
SliceFixed(elapsed) == SliceLength

\* remaining = timeout - elapsed; timeout=min(remaining, 30)
Slice(elapsed) == Min(ElicitTimeout - elapsed, SliceLength)

\* Top of `while True` with start_time = st: the deadline check, then the next
\* receive slice.
LoopTop(st) ==
  LET elapsed == now - st
  IN  IF elapsed >= ElicitTimeout
        THEN /\ callback_result' = TimeoutDict
             /\ Resolve(ElicitResult(TimeoutDict), "loop_timeout")
        ELSE /\ slice_deadline' = now + Slice(elapsed)
             /\ e_pc' = "waiting"
             /\ start_time' = st
             /\ UNCHANGED <<now, callback_result, outcomes, resolved_by, outer_deadline>>

\* A tool of the running query calls ctx.elicit(): elicitation_handler arms
\* wait_for and handle_elicitation starts sending the prompt.
BeginElicit ==
  /\ e_pc \in {"idle", "resolved"}
  /\ exchange < MaxExchanges
  /\ exchange' = exchange + 1
  /\ now' = 0
  /\ outer_deadline' = HandlerDeadline(now')
  /\ e_pc' = "sending"
  /\ callback_result' = NoCallbackResult
  /\ resolved_by' = "none"
  /\ dropped' = 0
  /\ answer' = NoMessage
  /\ start_time' = 0
  /\ UNCHANGED <<slice_deadline, inbox, closed, outcomes, prompts, others_sent, consumed, dispatched>>
  /\ UNCHANGED otherVars

\* await self.send({...}) completes; start_time is read and the loop entered.
SendDone ==
  /\ e_pc = "sending"
  /\ ~closed
  /\ prompts' = Append(prompts, exchange)
  /\ LoopTop(now)
  /\ UNCHANGED <<inbox, closed, exchange, dropped, answer, others_sent, consumed, dispatched>>
  /\ UNCHANGED otherVars

\* await self.send({...}) raises: `except Exception` of the handler.
SendFails ==
  /\ e_pc = "sending"
  /\ closed
  /\ Resolve(ElicitResult([action |-> "cancel"]), "exception")
  /\ UNCHANGED <<inbox, closed, exchange, callback_result, prompts,
                 dropped, answer, others_sent, consumed, dispatched>>
  /\ UNCHANGED otherVars

\* Mutant: a message of another kind is put back for the message loop.
TakenOthersKept(box) ==
  IF Get(Head(box), "type", "none") = "elicitation_response" THEN Tail(box)
  ELSE Append(Tail(box), Head(box))

\* data = await ...receive_json(): the message is off the socket, whatever the
\* loop does with it ("# Ignore other message types during elicitation").
Taken(box) == Tail(box)

\* Mutant: any message ends the wait as if it were the response.
ReceiveAnyKind ==
  /\ e_pc = "waiting"
  /\ inbox # <<>>
  /\ inbox' = Tail(inbox)
  /\ answer' = Head(inbox)
  /\ callback_result' = ResponseDict(Head(inbox))
  /\ Resolve(ElicitResult(ResponseDict(Head(inbox))), "response")
  /\ UNCHANGED <<closed, exchange, prompts, dropped, others_sent, consumed, dispatched>>
  /\ UNCHANGED otherVars

\* receive_json() returns a message within the slice: the response ends the
\* wait, a message of another kind is ignored.
Receive ==
  /\ e_pc = "waiting"
  /\ inbox # <<>>
  /\ inbox' = Taken(inbox)
  /\ IF Get(Head(inbox), "type", "none") = "elicitation_response"
       THEN /\ answer' = Head(inbox)
            /\ callback_result' = ResponseDict(Head(inbox))
            /\ Resolve(ElicitResult(ResponseDict(Head(inbox))), "response")
            /\ UNCHANGED <<dropped, consumed>>
       ELSE /\ dropped' = dropped + 1
            /\ consumed' = consumed \cup {Head(inbox).n}
            /\ UNCHANGED answer
            /\ LoopTop(start_time)
  /\ UNCHANGED <<closed, exchange, prompts, others_sent, dispatched>>
  /\ UNCHANGED otherVars

\* Mutant: the fault leaves the handler and takes the query and the session
\* with it.
ReceiveFailsPropagates ==
  /\ e_pc = "waiting"
  /\ inbox = <<>>
  /\ closed
  /\ e_pc' = "ended"
  /\ resolved_by' = "exception"
  /\ outer_deadline' = NoTimer
  /\ slice_deadline' = NoTimer
  /\ UNCHANGED <<now, start_time, outcomes, inbox, closed, exchange, callback_result,
                 prompts, dropped, answer, others_sent, consumed, dispatched>>
  /\ UNCHANGED otherVars

\* receive_json() raises (the peer closed the socket): `except Exception` of
\* the handler.
ReceiveFails ==
  /\ e_pc = "waiting"
  /\ inbox = <<>>
  /\ closed
  /\ Resolve(ElicitResult([action |-> "cancel"]), "exception")
  /\ UNCHANGED <<inbox, closed, exchange, callback_result, prompts,
                 dropped, answer, others_sent, consumed, dispatched>>
  /\ UNCHANGED otherVars

\* The slice's wait_for times out: `except asyncio.TimeoutError: continue`.
SliceTimeout ==
  /\ e_pc = "waiting"
  /\ now >= slice_deadline
  /\ LoopTop(start_time)
  /\ UNCHANGED <<inbox, closed, exchange, prompts, dropped, answer, others_sent, consumed, dispatched>>
  /\ UNCHANGED otherVars

\* Mutant: the handler's wait_for reports the timeout and leaves the callback
\* running.
HandlerTimeoutLeavesLoop ==
  /\ Pending
  /\ now >= outer_deadline
  /\ outcomes' = Append(outcomes, [exchange |-> exchange, result |-> [action |-> "cancel"]])
  /\ outer_deadline' = now + HandlerTimeout
  /\ UNCHANGED <<e_pc, now, start_time, slice_deadline, inbox, closed, exchange,
                 callback_result, resolved_by, prompts, dropped, answer, others_sent, consumed, dispatched>>
  /\ UNCHANGED otherVars

\* The handler's wait_for times out: the callback is cancelled and
\* `except asyncio.TimeoutError` returns ElicitResult(action="cancel").
HandlerTimesOut ==
  /\ Pending
  /\ now >= outer_deadline
  /\ Resolve(ElicitResult([action |-> "cancel"]), "wait_for_timeout")
  /\ UNCHANGED <<inbox, closed, exchange, callback_result, prompts,
                 dropped, answer, others_sent, consumed, dispatched>>
  /\ UNCHANGED otherVars

\* Time passes, never beyond an armed timer; a message that is there for a
\* waiting receive_json() is delivered first.
Tick ==
  /\ Pending
  /\ e_pc = "waiting" => inbox = <<>> /\ ~closed /\ now < slice_deadline
  /\ now < outer_deadline
  /\ now' = Min(now + Step,
                IF e_pc = "waiting" THEN Min(slice_deadline, outer_deadline)
                ELSE outer_deadline)
  /\ UNCHANGED <<e_pc, outer_deadline, start_time, slice_deadline, inbox, closed,
                 exchange, callback_result, outcomes, resolved_by, prompts, dropped,
                 answer, others_sent, consumed, dispatched>>
  /\ UNCHANGED otherVars

\* The frontend answers the prompt it was shown.
PeerResponds(m) ==
  /\ e_pc = "waiting"
  /\ ~closed
  /\ Len(inbox) < MaxInbox
  /\ inbox' = Append(inbox, m @@ [for |-> exchange, early |-> now < outer_deadline])
  /\ UNCHANGED <<e_pc, now, outer_deadline, start_time, slice_deadline, closed, exchange,
                 callback_result, outcomes, resolved_by, prompts, dropped, answer,
                 others_sent, consumed, dispatched>>
  /\ UNCHANGED otherVars

\* The frontend sends a message of another kind.
PeerSendsOther(t) ==
  /\ e_pc \in {"idle", "sending", "waiting", "resolved"}
  /\ ~closed
  /\ Len(inbox) < MaxInbox
  /\ others_sent < MaxOthers
  /\ others_sent' = others_sent + 1
  /\ inbox' = Append(inbox, [type |-> t, n |-> others_sent'])
  /\ UNCHANGED <<e_pc, now, outer_deadline, start_time, slice_deadline, closed, exchange,
                 callback_result, outcomes, resolved_by, prompts, dropped, answer,
                 consumed, dispatched>>
  /\ UNCHANGED otherVars

\* The peer closes the socket.
PeerCloses ==
  /\ e_pc \in {"idle", "sending", "waiting", "resolved"}
  /\ ~closed
  /\ closed' = TRUE
  /\ UNCHANGED <<e_pc, now, outer_deadline, start_time, slice_deadline, inbox, exchange,
                 callback_result, outcomes, resolved_by, prompts, dropped, answer,
                 others_sent, consumed, dispatched>>
  /\ UNCHANGED otherVars

\* The tool call and then the query finish; handle_chat returns to the loop of
\* handle_messages.  Nothing of the exchange is left but its outcome.
QueryEnds ==
  /\ e_pc = "resolved"
  /\ e_pc' = "idle"
  /\ now' = 0
  /\ start_time' = 0
  /\ callback_result' = NoCallbackResult
  /\ resolved_by' = "none"
  /\ dropped' = 0
  /\ answer' = NoMessage
  /\ UNCHANGED <<outer_deadline, slice_deadline, inbox, closed, exchange, outcomes,
                 prompts, others_sent, consumed, dispatched>>
  /\ UNCHANGED otherVars

\* handle_messages takes the next message: an elicitation_response matches no
\* branch, "disconnect" leaves the loop, a message of another kind goes to its
\* handler, a closed socket raises.
MainLoopReceive ==
  /\ e_pc = "idle"
  /\ inbox # <<>> \/ closed
  /\ IF inbox = <<>> \/ Head(inbox).type = "disconnect"
       THEN e_pc' = "ended" /\ UNCHANGED inbox
       ELSE inbox' = Tail(inbox) /\ UNCHANGED e_pc
  /\ dispatched' = IF inbox # <<>> /\ Head(inbox).type \in OtherTypes
                     THEN dispatched \cup {Head(inbox).n}
                     ELSE dispatched
  /\ UNCHANGED <<now, outer_deadline, start_time, slice_deadline, closed, exchange,
                 callback_result, outcomes, resolved_by, prompts, dropped, answer,
                 others_sent, consumed>>
  /\ UNCHANGED otherVars



ResponseMessages ==
  [type : {"elicitation_response"}, action : ResponseActions, data : {"{days: 3}"}]
  \cup [type : {"elicitation_response"}]

NextElicit ==
  \/ BeginElicit
  \/ SendDone
  \/ SendFails
  \/ Receive
  \/ ReceiveFails
  \/ SliceTimeout
  \/ HandlerTimesOut
  \/ Tick
  \/ \E m \in ResponseMessages : PeerResponds(m)
  \/ \E t \in OtherTypes : PeerSendsOther(t)
  \/ PeerCloses
  \/ QueryEnds
  \/ MainLoopReceive

\* The handler exists only where fastmcp could be imported.
InitElicit == Init /\ elicitation_available

SpecElicit == InitElicit /\ [][NextElicit]_vars

----------------------------------------------------------------------------
\* The sampling exchange: the tool process asks the client for a completion.
\* MCPClient._create_sampling_handler.sampling_handler answers on the
\* ClientSession, MCPClient._call_tool_with_elicitation.sampling_handler on the
\* FastMCP client of an elicitation-enabled tool call.

\* Bound: messages in one sampling request.
MaxMessages == 2

SamplingModel == "claude-sonnet-4-20250514"
RejectionText == "[Sampling request rejected by user]"
NoCallbackText == "[No sampling callback configured]"

\* msg.content of a SamplingMessage: TextContent, or content without a text
SamplingContents ==
  {[type |-> "text", text |-> "hi"], [type |-> "image", data |-> "AAAA"]}
SamplingMessages == [role : {"user", "assistant"}, content : SamplingContents]
SamplingParams ==
  [messages : SeqsUpTo(SamplingMessages, MaxMessages),
   systemPrompt : {None, "", "Be brief"},
   maxTokens : {100}]
SamplingFaults == {"overloaded"}

\* hasattr(obj, name)
HasAttr(obj, name) == name \in DOMAIN obj

\* str(content) of content that has no text
Str(content) == "type='" \o content.type \o "' data='" \o content.data \o "'"

\* {"role": msg.role, "content": str(content)}, content.text where there is one
ConvertMessage(msg) ==
  [role |-> msg.role,
   content |-> IF HasAttr(msg.content, "text") THEN msg.content.text
               ELSE Str(msg.content)]

ConvertMessages(msgs) == [i \in 1..Len(msgs) |-> ConvertMessage(msgs[i])]

\* SamplingRequest(messages=..., system_prompt=params.systemPrompt,
\*                 max_tokens=params.maxTokens)
SamplingRequestOf(params) ==
  [messages |-> ConvertMessages(params.messages),
   system_prompt |-> params.systemPrompt,
   max_tokens |-> params.maxTokens]

\* Mutant: the canned text is tested with `is not None`.
TruthyNotNone(x) == x # None

\* bool(x) of an Optional[str]
Truthy(x) == x # None /\ x # ""

\* Mutant: the system prompt of the request is not passed on.
GatewayCallNoSystem(params, msgs) ==
  [model |-> SamplingModel, max_tokens |-> params.maxTokens, system |-> "",
   messages |-> msgs]

\* self.anthropic.messages.create(model=..., max_tokens=params.maxTokens,
\*     system=params.systemPrompt or "", messages=...)
GatewayCall(params, msgs) ==
  [model |-> SamplingModel,
   max_tokens |-> params.maxTokens,
   system |-> IF Truthy(params.systemPrompt) THEN params.systemPrompt ELSE "",
   messages |-> msgs]

\* for block in api_response.content: if block.type == 'text': result_text += block.text
RECURSIVE SamplingText(_)
SamplingText(content) ==
  IF content = <<>> THEN ""
  ELSE (IF Head(content).type = "text" THEN Head(content).text ELSE "")
       \o SamplingText(Tail(content))

\* What goes back to the tool process: a completion text, or a fault.
Completion(text) == [kind |-> "completion", text |-> text]
Fault(e) == [kind |-> "fault", error |-> e]

\* f"[Sampling error: {e}]"
ErrorMarker(e) == "[Sampling error: " \o e \o "]"

\* The gateway's answers to a sampling completion call.
SamplingBlocks == {TextBlock(t) : t \in Texts} \cup {[type |-> "thinking"]}
SamplingResponses == SeqsUpTo(SamplingBlocks, 2)

\* MCPClient(api_key, sampling_callback)
NewClient(cb) ==
  /\ s_pc = "idle"
  /\ session = NoSession
  /\ sampling_callback' = cb
  /\ session' = NoSession
  /\ server_path' = ""
  /\ connected' = FALSE
  /\ UNCHANGED <<elicitation_available, queryVars, envVars, elicitVars, connVars, serveVars, sessVars>>
  /\ UNCHANGED <<s_pc, s_path, s_params, s_request, s_approval, gateway_log,
                 s_completion, s_result>>

\* A sampling request reaches a handler, which converts the messages, builds
\* the SamplingRequest and awaits the approval callback.  The ClientSession
\* has a handler only when the client was given a callback; the FastMCP
\* handler answers at once when there is none.
SamplingArrives(path, params) ==
  /\ s_pc = "idle"
  /\ session # NoSession
  /\ path = "session" => sampling_callback
  /\ path = "fastmcp" => elicitation_available /\ connected
  /\ s_path' = path
  /\ s_params' = params
  /\ s_request' = SamplingRequestOf(params)
  /\ IF path = "fastmcp" /\ ~sampling_callback
       THEN s_result' = Completion(NoCallbackText) /\ s_pc' = "done"
       ELSE s_pc' = "approval" /\ UNCHANGED s_result
  /\ UNCHANGED <<sampling_callback, s_approval, gateway_log, s_completion>>
  /\ UNCHANGED <<clientVars, queryVars, envVars, elicitVars, connVars, serveVars, sessVars>>

\* Mutant: the verdict of the callback is not looked at.
CallbackReturnsUnchecked(approved, text) ==
  /\ s_pc = "approval"
  /\ s_approval' = [approved |-> approved, response_text |-> text, returned |-> TRUE]
  /\ IF Truthy(text)
       THEN /\ s_result' = Completion(text)
            /\ s_pc' = "done"
            /\ UNCHANGED gateway_log
       ELSE /\ gateway_log' = Append(gateway_log, GatewayCall(s_params, s_request.messages))
            /\ s_pc' = "gateway"
            /\ UNCHANGED s_result
  /\ UNCHANGED <<sampling_callback, s_path, s_params, s_request, s_completion>>
  /\ UNCHANGED <<clientVars, queryVars, envVars, elicitVars, connVars, serveVars, sessVars>>

\* approved, response_text = await self.sampling_callback(request), and what
\* follows up to the return or to the call of the gateway.
CallbackReturns(approved, text) ==
  /\ s_pc = "approval"
  /\ s_approval' = [approved |-> approved, response_text |-> text, returned |-> TRUE]
  /\ IF ~approved
       THEN /\ s_result' = Completion(RejectionText)
            /\ s_pc' = "done"
            /\ UNCHANGED gateway_log
       ELSE IF Truthy(text)
         THEN /\ s_result' = Completion(text)
              /\ s_pc' = "done"
              /\ UNCHANGED gateway_log
         ELSE /\ gateway_log' = Append(gateway_log, GatewayCall(s_params, s_request.messages))
              /\ s_pc' = "gateway"
              /\ UNCHANGED s_result
  /\ UNCHANGED <<sampling_callback, s_path, s_params, s_request, s_completion>>
  /\ UNCHANGED <<clientVars, queryVars, envVars, elicitVars, connVars, serveVars, sessVars>>

\* What a fault e raised inside the handler becomes: the ClientSession handler
\* has `except Exception`, the FastMCP handler has no try.
HandlerFault(path, e) ==
  IF path = "session" THEN Completion(ErrorMarker(e)) ELSE Fault(e)

\* await self.sampling_callback(request) raises.
CallbackRaises(e) ==
  /\ s_pc = "approval"
  /\ s_result' = HandlerFault(s_path, e)
  /\ s_pc' = "done"
  /\ UNCHANGED <<sampling_callback, s_path, s_params, s_request, s_approval,
                 gateway_log, s_completion>>
  /\ UNCHANGED <<clientVars, queryVars, envVars, elicitVars, connVars, serveVars, sessVars>>

\* self.anthropic.messages.create(...) returns; the text is extracted.
GatewayReturns(content) ==
  /\ s_pc = "gateway"
  /\ s_completion' = [kind |-> "message", content |-> content]
  /\ s_result' = Completion(SamplingText(content))
  /\ s_pc' = "done"
  /\ UNCHANGED <<sampling_callback, s_path, s_params, s_request, s_approval,
                 gateway_log>>
  /\ UNCHANGED <<clientVars, queryVars, envVars, elicitVars, connVars, serveVars, sessVars>>

\* self.anthropic.messages.create(...) raises.
GatewayRaises(e) ==
  /\ s_pc = "gateway"
  /\ s_completion' = Fault(e)
  /\ s_result' = HandlerFault(s_path, e)
  /\ s_pc' = "done"
  /\ UNCHANGED <<sampling_callback, s_path, s_params, s_request, s_approval,
                 gateway_log>>
  /\ UNCHANGED <<clientVars, queryVars, envVars, elicitVars, connVars, serveVars, sessVars>>

\* The tool process has its answer; nothing of the exchange is kept.
SamplingOver ==
  /\ s_pc = "done"
  /\ s_pc' = "idle"
  /\ s_path' = "none"
  /\ s_params' = NoParams
  /\ s_request' = NoRequest
  /\ s_approval' = NoApproval
  /\ gateway_log' = <<>>
  /\ s_completion' = NoCompletion
  /\ s_result' = NoCompletion
  /\ UNCHANGED sampling_callback
  /\ UNCHANGED <<clientVars, queryVars, envVars, elicitVars, connVars, serveVars, sessVars>>

NextSampling ==
  \/ \E cb \in BOOLEAN : NewClient(cb)
  \/ \E path \in Paths, fail_at \in {"none", "stdio_client", "initialize", "list_tools"} :
       Connect(path, fail_at)
  \/ Cleanup
  \/ \E path \in {"session", "fastmcp"}, params \in SamplingParams :
       SamplingArrives(path, params)
  \/ \E approved \in BOOLEAN, text \in {None, "", "canned"} : CallbackReturns(approved, text)
  \/ \E e \in SamplingFaults : CallbackRaises(e)
  \/ \E content \in SamplingResponses : GatewayReturns(content)
  \/ \E e \in SamplingFaults : GatewayRaises(e)
  \/ SamplingOver

SpecSampling == Init /\ [][NextSampling]_vars

----------------------------------------------------------------------------
\* The connection lifecycle of one client and its owner: a websocket session
\* (routes/websocket.py) or the HTTP routes' shared client (routes/http.py).
\* Connect and Cleanup above are the same methods seen from process_query,
\* which reads the three fields only; here the exit stack is followed too.

\* Bound: subprocesses launched for one owner.
MaxLaunches == 2

ServerPaths == Paths \cup {"server.js"}
FailPoints == {"none", "stdio_client", "ClientSession", "initialize", "list_tools"}
ValueErrorText == "Server script must be a .py or .js file"
NotConnectedText == "Not connected to MCP server"

\* str(e) of the fault raised by the awaited step
FaultText(fail_at) == fail_at \o " failed"

\* The client object: its fields and what its exit stack holds.
ClientOf(s, p, c, st) == [session |-> s, server_path |-> p, connected |-> c, exit_stack |-> st]
Client == ClientOf(session, server_path, connected, exit_stack)

\* MCPClient(api_key)
FreshClient == ClientOf(NoSession, "", FALSE, <<>>)

Snapshot(c, n) == [client |-> c, launched |-> n]

SetClient(c) ==
  /\ session' = c.session
  /\ server_path' = c.server_path
  /\ connected' = c.connected
  /\ exit_stack' = c.exit_stack

\* connect(server_path) on client c, where the awaited step fail_at raises (if
\* any): the client afterwards.
AfterConnect(c, path, fail_at) ==
  IF ~EndsWithPyOrJs(path) \/ fail_at = "stdio_client" THEN c
  ELSE IF fail_at = "ClientSession"
    THEN [c EXCEPT !.exit_stack = Append(@, "stdio_client")]
  ELSE IF fail_at = "initialize"
    THEN [c EXCEPT !.exit_stack = @ \o <<"stdio_client", "ClientSession">>,
                   !.session = LiveSession]
  ELSE [c EXCEPT !.exit_stack = @ \o <<"stdio_client", "ClientSession">>,
                 !.session = LiveSession,
                 !.server_path = path,
                 !.connected = TRUE]

\* The subprocesses that connect call starts.
Launches(path, fail_at) ==
  IF ~EndsWithPyOrJs(path) \/ fail_at = "stdio_client" THEN 0 ELSE 1

\* str(e) of what connect raises, None when it returns the tools.
ConnectFault(path, fail_at) ==
  IF ~EndsWithPyOrJs(path) THEN ValueErrorText
  ELSE IF fail_at # "none" THEN FaultText(fail_at)
  ELSE None

\* Mutant: the exit stack is not closed.
AfterCleanupKeepsStack(c) ==
  [session |-> NoSession, server_path |-> "", connected |-> FALSE,
   exit_stack |-> c.exit_stack]

\* cleanup(): the fields are cleared, the exit stack is closed and replaced.
AfterCleanup(c) == ClientOf(NoSession, "", FALSE, <<>>)

\* The subprocesses an exit stack holds.
Held(stack) == Len(SelectSeq(stack, LAMBDA r : r = "stdio_client"))

Report(kind, message) == [kind |-> kind, message |-> message]

\* What connect's caller tells its peer: the catalog, or str(e).
ConnectReport(path, fail_at) ==
  IF ConnectFault(path, fail_at) = None THEN Report("connected", path)
  ELSE Report("error", ConnectFault(path, fail_at))

\* The catalogs a server script can serve; the script may change between two
\* launches.
Catalogs == {"v1", "v2"}

\* Mutant: the catalog fetched on the first connection is served again.
FirstCatalog(cats, n) == cats[1]

\* response.tools of self.session.list_tools(), the session talking to the
\* n-th subprocess launched.
SessionCatalog(cats, n) == cats[n]

\* connect(server_path) and the catalog: the subprocess launched serves some
\* catalog, self.session is the one talking to it, and the last line sends it
\* a list request whose answer connect returns.  b is the subprocess the
\* client's session talked to when connect was entered (0: a client object
\* on which no connect has got that far).  connected_to is the path of the last
\* connect call on the client that returned instead of raising.
ConnectCatalog(b, path, fail_at) ==
  LET bonds == AfterConnect(FreshClient, path, fail_at).session = LiveSession
      asks == EndsWithPyOrJs(path) /\ fail_at \in {"none", "list_tools"}
  IN  /\ \E cat \in Catalogs :
           catalogs' = IF Launches(path, fail_at) = 1 THEN Append(catalogs, cat)
                       ELSE catalogs
      /\ bound' = IF bonds THEN launched + 1 ELSE b
      /\ list_log' = IF asks THEN Append(list_log, bound') ELSE list_log
      /\ catalog' = IF ConnectFault(path, fail_at) = None
                      THEN SessionCatalog(catalogs', bound')
                      ELSE NoCatalog
      /\ connected_to' = IF ConnectFault(path, fail_at) = None THEN path
                           ELSE IF b = 0 THEN None
                           ELSE connected_to

\* A new owner, or cleanup(): no session talks to any subprocess.
NoCatalogBound ==
  /\ bound' = 0
  /\ catalog' = NoCatalog
  /\ connected_to' = None
  /\ UNCHANGED <<catalogs, list_log>>

\* websocket_chat: a WebSocketSession with its own MCPClient.
WsOpen ==
  /\ surface = "none"
  /\ surface' = "ws"
  /\ SetClient(FreshClient)
  /\ launched' = 0
  /\ handler' = "ws_open"
  /\ handler_result' = NoReport
  /\ attempt' = NoAttempt
  /\ op' = NoOperation
  /\ op_result' = NoReport
  /\ catalogs' = <<>>
  /\ bound' = 0
  /\ list_log' = <<>>
  /\ catalog' = NoCatalog
  /\ connected_to' = None
  /\ UNCHANGED <<elicitation_available, queryVars, envVars, elicitVars, samplingVars, serveVars, sessVars>>

\* startup(): the shared client of the HTTP routes.
HttpStartup ==
  /\ surface = "none"
  /\ surface' = "http"
  /\ SetClient(FreshClient)
  /\ launched' = 0
  /\ handler' = "http_startup"
  /\ handler_result' = NoReport
  /\ attempt' = NoAttempt
  /\ op' = NoOperation
  /\ op_result' = NoReport
  /\ catalogs' = <<>>
  /\ bound' = 0
  /\ list_log' = <<>>
  /\ catalog' = NoCatalog
  /\ connected_to' = None
  /\ UNCHANGED <<elicitation_available, queryVars, envVars, elicitVars, samplingVars, serveVars, sessVars>>

\* handle_connect(session, data): path is data.get("server_path").
WsConnect(path, fail_at) ==
  /\ surface = "ws"
  /\ launched < MaxLaunches
  /\ handler' = "ws_connect"
  /\ op' = NoOperation
  /\ op_result' = NoReport
  /\ IF path = None
       THEN /\ handler_result' = Report("error", "server_path required")
            /\ attempt' = NoAttempt
            /\ catalog' = NoCatalog
            /\ UNCHANGED <<session, server_path, connected, exit_stack, launched,
                           catalogs, bound, list_log, connected_to>>
       ELSE /\ SetClient(AfterConnect(Client, path, fail_at))
            /\ ConnectCatalog(bound, path, fail_at)
            /\ launched' = launched + Launches(path, fail_at)
            /\ attempt' = [path |-> path, fail_at |-> fail_at, made |-> TRUE,
                           before |-> Snapshot(Client, launched)]
            /\ handler_result' = ConnectReport(path, fail_at)
  /\ UNCHANGED <<surface, elicitation_available, queryVars, envVars, elicitVars,
                 samplingVars, serveVars, sessVars>>

\* POST /connect: a connected client is cleaned up and replaced first.
HttpConnect(path, fail_at) ==
  /\ surface = "http"
  /\ launched < MaxLaunches
  /\ handler' = "http_connect"
  /\ op' = NoOperation
  /\ op_result' = NoReport
  /\ LET c == IF connected THEN FreshClient ELSE Client
     IN  /\ SetClient(AfterConnect(c, path, fail_at))
         /\ ConnectCatalog(IF connected THEN 0 ELSE bound, path, fail_at)
         /\ attempt' = [path |-> path, fail_at |-> fail_at, made |-> TRUE,
                        before |-> Snapshot(c, launched)]
  /\ launched' = launched + Launches(path, fail_at)
  /\ handler_result' = ConnectReport(path, fail_at)
  /\ UNCHANGED <<surface, elicitation_available, queryVars, envVars, elicitVars,
                 samplingVars, serveVars, sessVars>>

\* POST /disconnect
HttpDisconnect ==
  /\ surface = "http"
  /\ handler' = "http_disconnect"
  /\ attempt' = NoAttempt
  /\ op' = NoOperation
  /\ op_result' = NoReport
  /\ IF connected
       THEN /\ SetClient(AfterCleanup(Client))
            /\ NoCatalogBound
            /\ handler_result' = Report("disconnected", "")
       ELSE /\ UNCHANGED <<session, server_path, connected, exit_stack, catalogs,
                           bound, list_log, connected_to>>
            /\ catalog' = NoCatalog
            /\ handler_result' = Report("not_connected", "")
  /\ UNCHANGED <<surface, launched, elicitation_available, queryVars, envVars,
                 elicitVars, samplingVars, serveVars, sessVars>>

\* The socket is over ("disconnect", or the peer is gone): `finally` of
\* websocket_chat runs session.cleanup().
WsClose ==
  /\ surface = "ws"
  /\ surface' = "none"
  /\ handler' = "ws_close"
  /\ handler_result' = NoReport
  /\ attempt' = NoAttempt
  /\ op' = NoOperation
  /\ op_result' = NoReport
  /\ SetClient(AfterCleanup(Client))
  /\ NoCatalogBound
  /\ UNCHANGED <<launched, elicitation_available, queryVars, envVars, elicitVars,
                 samplingVars, serveVars, sessVars>>

\* shutdown()
HttpShutdown ==
  /\ surface = "http"
  /\ surface' = "none"
  /\ handler' = "http_shutdown"
  /\ handler_result' = NoReport
  /\ attempt' = NoAttempt
  /\ op' = NoOperation
  /\ op_result' = NoReport
  /\ SetClient(AfterCleanup(Client))
  /\ NoCatalogBound
  /\ UNCHANGED <<launched, elicitation_available, queryVars, envVars, elicitVars,
                 samplingVars, serveVars, sessVars>>

ClientOps == {"process_query", "call_tool", "read_resource", "get_prompt",
              "list_tools", "list_resources", "list_prompts"}
WsOps == {"chat", "read_resource", "get_prompt"}

\* The method goes on to await self.session (or the gateway).
Proceeds(o) == [kind |-> "proceeds", message |-> o]

\* Mutant: read_resource and get_prompt lost their guard.
ClientResultUnguarded(o) ==
  IF session # NoSession \/ o \in {"read_resource", "get_prompt"} THEN Proceeds(o)
  ELSE IF o = "process_query" THEN Report("response", NotConnectedResponse.content)
  ELSE IF o = "call_tool" THEN Report("text", "Error: Not connected")
  ELSE Report("list", "")

\* The first lines of each method of MCPClient: `if not self.session: return ...`
\* (a listing returns [], shown as the empty "list").
ClientResult(o) ==
  IF session # NoSession THEN Proceeds(o)
  ELSE IF o = "process_query" THEN Report("response", NotConnectedResponse.content)
  ELSE IF o = "call_tool" THEN Report("text", "Error: Not connected")
  ELSE IF o \in {"read_resource", "get_prompt"} THEN Report("error", "Not connected")
  ELSE Report("list", "")

\* A method of the client is called.
ClientOp(o) ==
  /\ surface # "none"
  /\ op' = [name |-> o, before |-> Snapshot(Client, launched)]
  /\ op_result' = ClientResult(o)
  /\ UNCHANGED <<surface, exit_stack, launched, handler, handler_result, attempt,
                 catalogs, bound, list_log, catalog, connected_to>>
  /\ UNCHANGED <<clientVars, queryVars, envVars, elicitVars, samplingVars, serveVars, sessVars>>

\* handle_chat, handle_read_resource, handle_get_prompt with the field they
\* need present: `if not session.client.connected`, else the client's method.
WsOp(o) ==
  /\ surface = "ws"
  /\ op' = [name |-> "ws_" \o o, before |-> Snapshot(Client, launched)]
  /\ op_result' = IF ~connected THEN Report("error", NotConnectedText)
                  ELSE ClientResult(IF o = "chat" THEN "process_query" ELSE o)
  /\ UNCHANGED <<surface, exit_stack, launched, handler, handler_result, attempt,
                 catalogs, bound, list_log, catalog, connected_to>>
  /\ UNCHANGED <<clientVars, queryVars, envVars, elicitVars, samplingVars, serveVars, sessVars>>

NextConn ==
  \/ WsOpen
  \/ HttpStartup
  \/ \E path \in ServerPaths \cup {None}, fail_at \in FailPoints : WsConnect(path, fail_at)
  \/ \E path \in ServerPaths, fail_at \in FailPoints : HttpConnect(path, fail_at)
  \/ HttpDisconnect
  \/ WsClose
  \/ HttpShutdown
  \/ \E o \in ClientOps : ClientOp(o)
  \/ \E o \in WsOps : WsOp(o)

SpecConn == Init /\ [][NextConn]_vars

----------------------------------------------------------------------------
\* The coroutines that serve one client.  A websocket session runs
\* websocket_chat, whose message loop awaits each handler before it receives
\* again; the HTTP routes run one coroutine per request on the shared
\* http_client, all on one event loop.  q[0] is the process_query call of the
\* websocket session, q[t] that of the t-th HTTP /chat request; a call in
\* flight is suspended at `await self.list_tools()` or `await self.call_tool()`
\* (the gateway call itself does not yield).

WsLoop == 0
Turn(m, o) == [msg |-> m, outcome |-> o, sent |-> <<>>]
HttpRequests == 1..MaxRequests
ConnGhosts == <<handler, handler_result, attempt, op, op_result, catalogs, bound,
                list_log, catalog, connected_to>>

\* websocket_chat up to `await handle_messages(session)`.
WsAccept ==
  /\ surface = "none"
  /\ surface' = "ws"
  /\ SetClient(FreshClient)
  /\ launched' = 0
  /\ ws_pc' = "receive"
  /\ peer_gone' = FALSE
  /\ cleanups' = 0
  /\ ws_turn' = NoTurn
  /\ UNCHANGED <<q, ConnGhosts>>
  /\ UNCHANGED <<elicitation_available, queryVars, envVars, elicitVars, samplingVars, sessVars>>

\* handle_messages takes a "connect" message: handle_connect, up to its send.
WsHandleConnect(path, fail_at) ==
  /\ ws_pc = "receive"
  /\ ~peer_gone
  /\ launched < MaxLaunches
  /\ SetClient(AfterConnect(Client, path, fail_at))
  /\ launched' = launched + Launches(path, fail_at)
  /\ ws_pc' = "send"
  /\ ws_turn' = Turn("connect", IF ConnectFault(path, fail_at) = None THEN "connected"
                                ELSE "raise")
  /\ UNCHANGED <<surface, q, peer_gone, cleanups, ConnGhosts>>
  /\ UNCHANGED <<elicitation_available, queryVars, envVars, elicitVars, samplingVars, sessVars>>

WsMessages == {"chat", "chat_empty", "request", "disconnect", "malformed"}

\* handle_messages takes a message of another kind: "chat" (handle_chat;
\* "chat_empty" has no message text), "request" (read_resource or get_prompt),
\* "disconnect" (break), or one that makes receive_json() or data.get() raise.
WsReceive(m) ==
  /\ ws_pc = "receive"
  /\ ~peer_gone
  /\ IF m = "disconnect"
       THEN ws_pc' = "finally" /\ ws_turn' = Turn(m, "none") /\ UNCHANGED q
     ELSE IF m = "malformed"
       THEN ws_pc' = "except" /\ ws_turn' = Turn(m, "none") /\ UNCHANGED q
     ELSE IF m = "chat_empty"
       THEN ws_pc' = "send" /\ ws_turn' = Turn("chat", "no_message") /\ UNCHANGED q
     ELSE IF ~connected
       THEN ws_pc' = "send" /\ ws_turn' = Turn(m, "not_connected") /\ UNCHANGED q
     ELSE IF m = "request"
       THEN ws_pc' = "request" /\ ws_turn' = Turn(m, "none") /\ UNCHANGED q
     ELSE IF session = NoSession
       THEN ws_pc' = "send" /\ ws_turn' = Turn(m, "final") /\ UNCHANGED q
     ELSE /\ ws_pc' = "chat"
          /\ ws_turn' = Turn(m, "none")
          /\ q' = [q EXCEPT ![WsLoop] = "list_tools"]
  /\ UNCHANGED <<surface, exit_stack, launched, peer_gone, cleanups, ConnGhosts>>
  /\ UNCHANGED <<clientVars, queryVars, envVars, elicitVars, samplingVars, sessVars>>

\* receive_json() raises WebSocketDisconnect: `except WebSocketDisconnect: pass`.
WsReceiveRaises ==
  /\ ws_pc = "receive"
  /\ peer_gone
  /\ ws_pc' = "finally"
  /\ UNCHANGED <<surface, exit_stack, launched, q, peer_gone, cleanups, ws_turn, ConnGhosts>>
  /\ UNCHANGED <<clientVars, queryVars, envVars, elicitVars, samplingVars, sessVars>>

\* POST /chat: require_connection(), then process_query up to its first await.
HttpChat(t) ==
  /\ surface = "http"
  /\ q[t] = "none"
  /\ connected
  /\ session # NoSession
  /\ q' = [q EXCEPT ![t] = "list_tools"]
  /\ UNCHANGED <<surface, exit_stack, launched, ws_pc, peer_gone, cleanups, ws_turn, ConnGhosts>>
  /\ UNCHANGED <<clientVars, queryVars, envVars, elicitVars, samplingVars, sessVars>>

AwaitOutcomes == {"tool", "final", "raise", "model_fault"}

\* The awaited call of process_query t returns or raises: the gateway is asked
\* and wants a tool (the next await), or answers for good, or the awaited call
\* raised, or it returned and the gateway call after it raised.
\* handle_chat catches the fault and goes on to send; chat() answers 500.
QueryAwaits(t, o) ==
  /\ q[t] # "none"
  /\ o = "tool" => session # NoSession
  /\ q' = [q EXCEPT ![t] = IF o = "tool" THEN "tool" ELSE "none"]
  /\ ws_pc' = IF t = WsLoop /\ o # "tool" THEN "send" ELSE ws_pc
  /\ ws_turn' = IF t = WsLoop /\ o # "tool" THEN [ws_turn EXCEPT !.outcome = o]
                ELSE ws_turn
  /\ UNCHANGED <<surface, exit_stack, launched, peer_gone, cleanups, ConnGhosts>>
  /\ UNCHANGED <<clientVars, queryVars, envVars, elicitVars, samplingVars, sessVars>>

\* read_resource / get_prompt of the client returns or raises.
WsRequestReturns(ok) ==
  /\ ws_pc = "request"
  /\ ws_pc' = "send"
  /\ ws_turn' = [ws_turn EXCEPT !.outcome = IF ok THEN "final" ELSE "raise"]
  /\ UNCHANGED <<surface, exit_stack, launched, q, peer_gone, cleanups, ConnGhosts>>
  /\ UNCHANGED <<clientVars, queryVars, envVars, elicitVars, samplingVars, sessVars>>

\* Mutant: the response of a chat is sent whatever process_query did.
HandlerSendsAnyway(msg, outcome) ==
  IF outcome \in {"no_message", "not_connected"} THEN <<"error">>
  ELSE IF outcome \in {"raise", "model_fault"}
    THEN (IF msg = "chat" THEN <<"error", "response">> ELSE <<"error">>)
  ELSE IF msg = "chat" THEN <<"response">>
  ELSE IF msg = "connect" THEN <<"connected">>
  ELSE <<"content">>

\* The messages a handler passes to session.send on the paths of its code: the
\* error of a missing field or of a client that is not connected, the error of
\* its `except Exception`, or the reply of its kind at the end of its `try`.
HandlerSends(msg, outcome) ==
  IF outcome \in {"no_message", "not_connected"} THEN <<"error">>
  ELSE IF outcome \in {"raise", "model_fault"} THEN <<"error">>
  ELSE IF msg = "chat" THEN <<"response">>
  ELSE IF msg = "connect" THEN <<"connected">>
  ELSE <<"content">>

\* The handler's `await session.send(...)`: it returns to the loop, or it
\* raises (inside `try` the `except` clause then sends the error, which raises
\* as well) out of the handler and out of handle_messages.
WsSend ==
  /\ ws_pc = "send"
  /\ ws_pc' = IF peer_gone THEN "except" ELSE "receive"
  /\ ws_turn' = IF peer_gone THEN ws_turn
                ELSE [ws_turn EXCEPT !.sent = @ \o HandlerSends(ws_turn.msg, ws_turn.outcome)]
  /\ UNCHANGED <<surface, exit_stack, launched, q, peer_gone, cleanups, ConnGhosts>>
  /\ UNCHANGED <<clientVars, queryVars, envVars, elicitVars, samplingVars, sessVars>>

\* websocket_chat's `except`: WebSocketDisconnect passes, another Exception is
\* reported to the peer if that still works.
WsExcept ==
  /\ ws_pc = "except"
  /\ ws_pc' = "finally"
  /\ ws_turn' = IF peer_gone THEN ws_turn ELSE [ws_turn EXCEPT !.sent = Append(@, "error")]
  /\ UNCHANGED <<surface, exit_stack, launched, q, peer_gone, cleanups, ConnGhosts>>
  /\ UNCHANGED <<clientVars, queryVars, envVars, elicitVars, samplingVars, sessVars>>

\* The coroutine is cancelled where it awaits: CancelledError is no Exception,
\* only the `finally` clause runs.
WsCancelled ==
  /\ ws_pc \in {"receive", "chat", "request", "send", "except"}
  /\ ws_pc' = "finally"
  /\ q' = [q EXCEPT ![WsLoop] = "none"]
  /\ UNCHANGED <<surface, exit_stack, launched, peer_gone, cleanups, ws_turn, ConnGhosts>>
  /\ UNCHANGED <<clientVars, queryVars, envVars, elicitVars, samplingVars, sessVars>>

\* Mutant: the coroutine ends without the `finally` clause.
WsFinallySkipped ==
  /\ ws_pc = "finally"
  /\ ws_pc' = "closed"
  /\ UNCHANGED <<surface, exit_stack, launched, q, peer_gone, cleanups, ws_turn, ConnGhosts>>
  /\ UNCHANGED <<clientVars, queryVars, envVars, elicitVars, samplingVars, sessVars>>

\* finally: await session.cleanup()
WsFinally ==
  /\ ws_pc = "finally"
  /\ SetClient(AfterCleanup(Client))
  /\ cleanups' = cleanups + 1
  /\ ws_pc' = "closed"
  /\ UNCHANGED <<surface, launched, q, peer_gone, ws_turn, ConnGhosts>>
  /\ UNCHANGED <<elicitation_available, queryVars, envVars, elicitVars, samplingVars, sessVars>>

\* websocket_chat has returned; the session object is gone.
WsGone ==
  /\ ws_pc = "closed"
  /\ surface' = "none"
  /\ ws_pc' = "none"
  /\ peer_gone' = FALSE
  /\ cleanups' = 0
  /\ ws_turn' = NoTurn
  /\ UNCHANGED <<exit_stack, launched, q, ConnGhosts>>
  /\ UNCHANGED <<clientVars, queryVars, envVars, elicitVars, samplingVars, sessVars>>

\* The peer closes the socket.
WsPeerCloses ==
  /\ ws_pc \in {"receive", "chat", "request", "send", "except", "finally"}
  /\ ~peer_gone
  /\ peer_gone' = TRUE
  /\ UNCHANGED <<surface, exit_stack, launched, ws_pc, q, cleanups, ws_turn, ConnGhosts>>
  /\ UNCHANGED <<clientVars, queryVars, envVars, elicitVars, samplingVars, sessVars>>

NextServe ==
  \/ WsAccept
  \/ \E path \in ServerPaths, fail_at \in FailPoints : WsHandleConnect(path, fail_at)
  \/ \E m \in WsMessages : WsReceive(m)
  \/ WsReceiveRaises
  \/ \E t \in HttpRequests : HttpChat(t)
  \/ \E t \in {WsLoop} \cup HttpRequests, o \in AwaitOutcomes : QueryAwaits(t, o)
  \/ \E ok \in BOOLEAN : WsRequestReturns(ok)
  \/ WsSend
  \/ WsExcept
  \/ WsCancelled
  \/ WsFinally
  \/ WsGone
  \/ WsPeerCloses
  \/ HttpStartup
  \/ \E path \in ServerPaths, fail_at \in FailPoints : HttpConnect(path, fail_at)
  \/ HttpDisconnect

SpecServe == Init /\ [][NextServe]_vars

\* The event loop runs a coroutine that can go on: once the message loop is
\* left, the `except` and `finally` clauses of websocket_chat are executed.
SpecServeFair == SpecServe /\ WF_vars(WsExcept) /\ WF_vars(WsFinally)

----------------------------------------------------------------------------
\* Several websocket sessions served at a time.  websocket_chat builds one
\* WebSocketSession per socket; clients[i] is an MCPClient object and
\* ws_sessions[s].client the object session.client refers to; messages is the
\* transcript local to the process_query call of the session's handle_chat.

WsSessions == 1..MaxSessions

\* Mutant: the sessions are handed one module-level client.
SharedClientId == CHOOSE i \in 1..MaxSessions : \A j \in 1..MaxSessions : i <= j

\* self.client = MCPClient(api_key): an object no live session refers to.
NewClientId ==
  CHOOSE i \in 1..MaxSessions : \A t \in WsSessions : ws_sessions[t].client # i

ClientAt(s) == clients[ws_sessions[s].client]

\* websocket_chat: accept, WebSocketSession(websocket, api_key), handle_messages.
SessAccept(s) ==
  /\ ws_sessions[s].at = "none"
  /\ LET id == NewClientId
     IN  /\ ws_sessions' = [ws_sessions EXCEPT ![s] =
                              [at |-> "receive", client |-> id, messages |-> <<>>]]
         /\ clients' = [clients EXCEPT ![id] = FreshClient]
  /\ UNCHANGED <<clientVars, queryVars, envVars, elicitVars, samplingVars, connVars, serveVars>>

\* handle_connect(session, data): session.client.connect(server_path).
SessConnect(s, path, fail_at) ==
  /\ ws_sessions[s].at = "receive"
  /\ Held(ClientAt(s).exit_stack) < MaxLaunches
  /\ clients' = [clients EXCEPT ![ws_sessions[s].client] = AfterConnect(@, path, fail_at)]
  /\ UNCHANGED <<ws_sessions, clientVars, queryVars, envVars, elicitVars, samplingVars, connVars, serveVars>>

\* handle_chat(session, data): the error reply of a client that is not
\* connected, or process_query up to its first await with the transcript seeded.
SessChat(s) ==
  /\ ws_sessions[s].at = "receive"
  /\ IF ~ClientAt(s).connected \/ ClientAt(s).session = NoSession
       THEN UNCHANGED ws_sessions
       ELSE ws_sessions' = [ws_sessions EXCEPT ![s].at = "chat",
                              ![s].messages = <<[role |-> "user", content |-> Query]>>]
  /\ UNCHANGED <<clients, clientVars, queryVars, envVars, elicitVars, samplingVars, connVars, serveVars>>

\* A tool round of the session's query: the tool is called and both turns are
\* appended to the transcript.
SessRound(s, text) ==
  /\ ws_sessions[s].at = "chat"
  /\ Len(ws_sessions[s].messages) < 1 + 2 * MaxRounds
  /\ LET block == ToolUseBlock(1, [name |-> "get_forecast", input |-> "Denver"])
     IN  ws_sessions' = [ws_sessions EXCEPT ![s].messages =
                           AppendRound(@, <<block>>, <<ToolResultBlock(block, text)>>)]
  /\ UNCHANGED <<clients, clientVars, queryVars, envVars, elicitVars, samplingVars, connVars, serveVars>>

\* session.handle_elicitation: the prompt is sent on the session's socket and
\* the answer is awaited there.
SessElicits(s) ==
  /\ ws_sessions[s].at = "chat"
  /\ ws_sessions' = [ws_sessions EXCEPT ![s].at = "elicit"]
  /\ UNCHANGED <<clients, clientVars, queryVars, envVars, elicitVars, samplingVars, connVars, serveVars>>

\* handle_elicitation returns to the tool call.
SessElicitReturns(s) ==
  /\ ws_sessions[s].at = "elicit"
  /\ ws_sessions' = [ws_sessions EXCEPT ![s].at = "chat"]
  /\ UNCHANGED <<clients, clientVars, queryVars, envVars, elicitVars, samplingVars, connVars, serveVars>>

\* process_query returns or raises; handle_chat sends its reply.
SessChatReturns(s) ==
  /\ ws_sessions[s].at = "chat"
  /\ ws_sessions' = [ws_sessions EXCEPT ![s].at = "receive", ![s].messages = <<>>]
  /\ UNCHANGED <<clients, clientVars, queryVars, envVars, elicitVars, samplingVars, connVars, serveVars>>

\* The message loop is left: "disconnect" breaks it, or an await raises
\* because the peer is gone.
SessLeaves(s) ==
  /\ ws_sessions[s].at \in {"receive", "chat", "elicit"}
  /\ ws_sessions' = [ws_sessions EXCEPT ![s].at = "finally", ![s].messages = <<>>]
  /\ UNCHANGED <<clients, clientVars, queryVars, envVars, elicitVars, samplingVars, connVars, serveVars>>

\* finally: await session.cleanup(); websocket_chat returns.
SessCleanup(s) ==
  /\ ws_sessions[s].at = "finally"
  /\ clients' = [clients EXCEPT ![ws_sessions[s].client] = AfterCleanup(@)]
  /\ ws_sessions' = [ws_sessions EXCEPT ![s] = NoWsSession]
  /\ UNCHANGED <<clientVars, queryVars, envVars, elicitVars, samplingVars, connVars, serveVars>>

NextSessions ==
  \E s \in WsSessions :
    \/ SessAccept(s)
    \/ \E path \in ServerPaths, fail_at \in FailPoints : SessConnect(s, path, fail_at)
    \/ SessChat(s)
    \/ \E text \in {"Sunny", "Error executing tool"} : SessRound(s, text)
    \/ SessElicits(s)
    \/ SessElicitReturns(s)
    \/ SessChatReturns(s)
    \/ SessLeaves(s)
    \/ SessCleanup(s)

SpecSessions == Init /\ [][NextSessions]_vars

----------------------------------------------------------------------------
\* Vocabulary of the properties, defined on what the collaborators observed.

IsPrefix(a, b) == Len(a) <= Len(b) /\ SubSeq(b, 1, Len(a)) = a

\* The texts of the text blocks of a content list, in order.
TextsIn(content) ==
  LET sel == SelectSeq(content, LAMBDA b : b.type = "text")
  IN  [i \in 1..Len(sel) |-> sel[i].text]

\* The identifiers of the tool-invocation blocks of a content list, in order.
InvocationIds(content) ==
  LET sel == SelectSeq(content, LAMBDA b : b.type = "tool_use")
  IN  [i \in 1..Len(sel) |-> sel[i].id]

ResultIds(results) == [i \in 1..Len(results) |-> results[i].tool_use_id]

Range(f) == {f[i] : i \in DOMAIN f}

RECURSIVE NewlineSeparated(_)
NewlineSeparated(seq) ==
  IF seq = <<>> THEN ""
  ELSE IF Len(seq) = 1 THEN seq[1]
  ELSE NewlineSeparated(SubSeq(seq, 1, Len(seq) - 1)) \o "\n" \o seq[Len(seq)]

RECURSIVE Concatenated(_)
Concatenated(seq) ==
  IF seq = <<>> THEN ""
  ELSE Concatenated(SubSeq(seq, 1, Len(seq) - 1)) \o seq[Len(seq)]

\* The gateway's responses that asked for tools, and what they emitted.
RECURSIVE EmittedIds(_)
EmittedIds(log) ==
  IF log = <<>> THEN <<>>
  ELSE EmittedIds(SubSeq(log, 1, Len(log) - 1)) \o
       (IF log[Len(log)].stop_reason = "tool_use"
          THEN InvocationIds(log[Len(log)].content) ELSE <<>>)

RECURSIVE AllTexts(_)
AllTexts(log) ==
  IF log = <<>> THEN <<>>
  ELSE AllTexts(SubSeq(log, 1, Len(log) - 1)) \o TextsIn(log[Len(log)].content)

Returned == pc = "returned" /\ had_session
ToolRounds == Len(model_log) - 1

----------------------------------------------------------------------------
\* C1: when process_query returns after N tool rounds, the transcript is the
\* seed user turn followed by exactly N assistant/user pairs; the k-th assistant
\* turn holds the blocks of the k-th response, and the user turn after it holds
\* exactly one tool-result block per invocation block, carrying that block's
\* identifier.
C1_TranscriptPairs ==
  Returned =>
    /\ Len(messages) = 1 + 2 * ToolRounds
    /\ messages[1] = [role |-> "user", content |-> Query]
    /\ \A k \in 1..ToolRounds :
         LET a == messages[2 * k]
             u == messages[2 * k + 1]
         IN  /\ a.role = "assistant"
             /\ a.content = model_log[k].content
             /\ u.role = "user"
             /\ \A j \in 1..Len(u.content) : u.content[j].type = "tool_result"
             /\ Len(u.content) = Len(InvocationIds(a.content))
             /\ Range(ResultIds(u.content)) = Range(InvocationIds(a.content))

C1_Witness ==
  /\ Returned
  /\ Len(messages) = 5
  /\ Len(messages[3].content) = 1

\* C2: within a round the tool invocations are executed one at a time in the
\* order the model emitted them, and the result blocks are in that same order.
C2_EmissionOrder ==
  /\ Cardinality(inflight) <= 1
  /\ IsPrefix(call_log, EmittedIds(model_log))
  /\ \A i \in 1..Len(call_log) :
       call_log[i] \in inflight => i = Len(call_log)
  /\ pc \in {"round", "tool"} =>
       IsPrefix(ResultIds(tool_results), InvocationIds(response.content))
  /\ \A k \in 1..Len(messages) :
       messages[k].role = "assistant" =>
         ResultIds(messages[k + 1].content) = InvocationIds(messages[k].content)

C2_Witness ==
  /\ Len(messages) >= 3
  /\ Len(messages[3].content) = 2
  /\ messages[3].content[1].tool_use_id < messages[3].content[2].tool_use_id

\* C3: a tool invocation that raises or returns a fault never aborts
\* process_query; the fault becomes that invocation's result string.
C3_ToolFaultNeverAborts == raised_by # "call_tool"

\* C4: a failing Model Gateway call, in any round, propagates out of
\* process_query, which returns no response.
C4_ModelFaultPropagates ==
  model_calls > Len(model_log) =>
    /\ pc = "raised"
    /\ raised_by = "model"
    /\ result = NoResult

C4_Witness ==
  /\ model_calls > Len(model_log)
  /\ Len(model_log) = 1
  /\ pc = "raised"

\* C5 (as amended): process_query called with no session returns at once with
\* the content "Not connected to MCP server" and an empty call log, having made
\* no Model Gateway call and no tool invocation.
C5_NotConnected ==
  (pc # "idle" /\ ~had_session) =>
    /\ pc = "returned"
    /\ result.content = "Not connected to MCP server"
    /\ result.tool_calls = <<>>
    /\ model_calls = 0
    /\ call_log = <<>>
    /\ inflight = {}

\* C5 as stated: the content is "Not connected".
C5_AsStated ==
  (pc # "idle" /\ ~had_session) =>
    /\ pc = "returned"
    /\ result.content = "Not connected"
    /\ result.tool_calls = <<>>
    /\ model_calls = 0
    /\ call_log = <<>>

C5_Witness == pc = "returned" /\ ~had_session /\ session = NoSession

\* C6 (as amended): a query that ends without any tool invocation returns the
\* text blocks of its single model response joined by newlines, and an empty
\* call log.
C6_NoToolQuery ==
  (Returned /\ ToolRounds = 0) =>
    /\ result.content = NewlineSeparated(TextsIn(model_log[1].content))
    /\ result.tool_calls = <<>>

\* C6 as stated: the final text is the plain concatenation of the text blocks.
C6_AsStated ==
  (Returned /\ ToolRounds = 0) =>
    /\ result.content = Concatenated(TextsIn(model_log[1].content))
    /\ result.tool_calls = <<>>

C6_Witness ==
  /\ Returned
  /\ ToolRounds = 0
  /\ Len(TextsIn(model_log[1].content)) = 2

\* C7: the returned final text holds every text block of every round, tool
\* rounds included, in round order and block order, none missing or repeated.
C7_AllTextKept ==
  Returned =>
    /\ final_text = AllTexts(model_log)
    /\ result.content = NewlineSeparated(AllTexts(model_log))

C7_Witness ==
  /\ Returned
  /\ ToolRounds = 1
  /\ TextsIn(model_log[1].content) = <<"a">>
  /\ TextsIn(model_log[2].content) = <<"b">>

----------------------------------------------------------------------------
\* Elicitation properties (SpecElicit)

LastOutcome == outcomes[Len(outcomes)].result
TimedOut == resolved_by \in {"loop_timeout", "wait_for_timeout"}
ProtocolActions == {"accept", "decline", "cancel"}

\* C8 (as amended): an exchange that gets no matching response within 120
\* seconds of the request resolves to cancel because of the timeout, and the
\* tool observes action cancel; the answer carries the reason timeout when the
\* wait loop's own deadline check decides, and is a bare cancel when the
\* handler's 120-second wait_for fires first; no exchange is pending later than
\* 120 seconds after the request.
C8_TimeoutCancels ==
  /\ Pending => now <= ElicitTimeout
  /\ (e_pc = "resolved" /\ answer = NoMessage /\ resolved_by # "exception") =>
       /\ TimedOut
       /\ LastOutcome = [action |-> "cancel"]
  /\ resolved_by = "loop_timeout" =>
       /\ callback_result = [action |-> "cancel", reason |-> "timeout"]
       /\ answer = NoMessage
  /\ resolved_by = "wait_for_timeout" =>
       /\ callback_result = NoCallbackResult
       /\ answer = NoMessage

\* C8 as stated: every exchange that times out resolves to cancel with reason
\* timeout.
C8_AsStated ==
  (e_pc = "resolved" /\ answer = NoMessage /\ resolved_by # "exception") =>
    /\ callback_result = [action |-> "cancel", reason |-> "timeout"]
    /\ LastOutcome = [action |-> "cancel"]

C8_Witness ==
  /\ e_pc = "resolved"
  /\ resolved_by = "loop_timeout"
  /\ dropped = 1
  /\ LastOutcome.action = "cancel"

\* C9: every exchange produces exactly one outcome, with an action among
\* accept, decline and cancel; a resolved exchange gets no second outcome from
\* a later message or timer, and its prompt is sent at most once.
C9_ExactlyOneOutcome ==
  /\ Len(outcomes) = (IF Pending THEN exchange - 1 ELSE exchange)
  /\ \A i \in 1..Len(outcomes) :
       /\ outcomes[i].exchange = i
       /\ outcomes[i].result.action \in ProtocolActions
  /\ Len(prompts) <= exchange
  /\ \A i, j \in 1..Len(prompts) : prompts[i] = prompts[j] => i = j

C9_Witness ==
  /\ e_pc = "idle"
  /\ exchange = 2
  /\ Len(outcomes) = 2
  /\ outcomes[1].result.action = "accept"
  /\ outcomes[2].result.action = "cancel"
  /\ inbox # <<>>
  /\ Head(inbox).type = "elicitation_response"
  /\ Head(inbox).for = 2

\* C10: an elicitation_response received while the exchange is pending decides
\* it, with the response's action, however many messages of other kinds were
\* taken before it; and no response that arrived before the deadline is left
\* behind by an exchange that timed out.
C10_ResponseDecides ==
  /\ answer # NoMessage =>
       /\ e_pc = "resolved"
       /\ resolved_by = "response"
       /\ answer.type = "elicitation_response"
       /\ ("action" \in DOMAIN answer /\ answer.action \in ProtocolActions) =>
            LastOutcome.action = answer.action
  /\ resolved_by = "response" => answer # NoMessage
  /\ (e_pc = "resolved" /\ TimedOut) =>
       \A i \in 1..Len(inbox) :
         (inbox[i].type = "elicitation_response" /\ inbox[i].for = exchange) =>
           ~inbox[i].early

C10_Witness ==
  /\ e_pc = "resolved"
  /\ resolved_by = "response"
  /\ dropped = 2
  /\ LastOutcome.action = "decline"

----------------------------------------------------------------------------
\* C11: a tool call whose elicitation was answered with decline or cancel
\* returns a text that says the operation was cancelled, never a trip plan;
\* that text is in the call log and in the tool-result block of the
\* invocation, and the block is in the transcript before the Model Gateway is
\* called again.
CancellationText(action) ==
  IF action = "decline" THEN "Trip planning cancelled - you declined to provide details."
  ELSE "Trip planning cancelled."

FoldedBlocks ==
  UNION {Range(messages[k].content) :
           k \in {j \in 2..Len(messages) : messages[j].role = "user"}}

RoundOf(id) ==
  CHOOSE k \in 1..Len(model_log) : id \in Range(InvocationIds(model_log[k].content))

C11_DeclineShortCircuits ==
  \A e \in elicited :
    e[2] \in {"decline", "cancel"} =>
      LET id == e[1]
          text == CancellationText(e[2])
          block == [type |-> "tool_result", tool_use_id |-> id, content |-> text]
      IN  /\ \E i \in 1..Len(tool_calls) :
                /\ call_log[i] = id
                /\ tool_calls[i].name = "plan_trip"
                /\ tool_calls[i].result = text
          /\ block \in Range(tool_results) \cup FoldedBlocks
          /\ model_calls > RoundOf(id) => block \in FoldedBlocks

C11_Witness ==
  /\ pc = "returned"
  /\ model_calls = 2
  /\ \E e \in elicited : e[2] = "decline"
  /\ Len(messages) = 3
  /\ messages[3].content[1].content =
       "Trip planning cancelled - you declined to provide details."

----------------------------------------------------------------------------
\* Sampling properties (SpecSampling)

Approved == s_approval.returned /\ s_approval.approved
Rejected == s_approval.returned /\ ~s_approval.approved

\* C12: a sampling request the approval callback rejects is answered with the
\* fixed rejection text, as a completion, and no call of the Model Gateway is
\* made for it, whichever of the two handlers took the request.
C12_RejectedNeverCallsGateway ==
  Rejected =>
    /\ s_pc = "done"
    /\ s_result = [kind |-> "completion", text |-> "[Sampling request rejected by user]"]
    /\ gateway_log = <<>>
    /\ s_completion = NoCompletion

C12_Witness ==
  /\ Rejected
  /\ s_path = "fastmcp"
  /\ s_approval.response_text = "canned"
  /\ s_pc = "done"

\* C13: a sampling request approved with a canned text is answered with
\* exactly that text, and no call of the Model Gateway is made for it.
C13_CannedTextVerbatim ==
  (Approved /\ s_approval.response_text # None) =>
    /\ s_pc = "done"
    /\ s_result = [kind |-> "completion", text |-> s_approval.response_text]
    /\ gateway_log = <<>>

\* C14: whatever fails while a sampling request is handled, the tool process
\* gets a completion (an error-marker text), never a fault, on both paths.
C14_FaultsBecomeText ==
  s_pc = "done" =>
    /\ s_result.kind = "completion"
    /\ s_completion.kind = "fault" => s_result.text = "[Sampling error: overloaded]"

\* C15: a sampling request approved without a canned text makes exactly one
\* call of the Model Gateway, with the converted messages, the system prompt
\* of the request (empty when it has none) and its max-token bound, and is
\* answered with the concatenation of the text blocks of that completion.
C15_DelegatedCompletion ==
  (Approved /\ s_approval.response_text = None) =>
    /\ s_pc \in {"gateway", "done"}
    /\ Len(gateway_log) = 1
    /\ gateway_log[1].messages = s_request.messages
    /\ Len(gateway_log[1].messages) = Len(s_params.messages)
    /\ \A i \in 1..Len(s_params.messages) :
         /\ gateway_log[1].messages[i].role = s_params.messages[i].role
         /\ s_params.messages[i].content.type = "text" =>
              gateway_log[1].messages[i].content = s_params.messages[i].content.text
    /\ gateway_log[1].system =
         (IF s_params.systemPrompt = None THEN "" ELSE s_params.systemPrompt)
    /\ gateway_log[1].max_tokens = s_params.maxTokens
    /\ s_completion.kind = "message" =>
         s_result = [kind |-> "completion",
                     text |-> Concatenated(TextsIn(s_completion.content))]

C15_Witness ==
  /\ Approved
  /\ s_approval.response_text = None
  /\ s_pc = "done"
  /\ s_params.systemPrompt = "Be brief"
  /\ Len(s_params.messages) = 2
  /\ s_completion.kind = "message"
  /\ s_result.text = "ab"

----------------------------------------------------------------------------
\* Connection lifecycle properties (SpecConn)

RecognizedScript(path) == path \in {"weather.py", "server.js"}

Disconnected ==
  /\ session = NoSession
  /\ ~connected
  /\ server_path = ""
  /\ exit_stack = <<>>

NowSnapshot ==
  [client |-> [session |-> session, server_path |-> server_path,
               connected |-> connected, exit_stack |-> exit_stack],
   launched |-> launched]

\* C16: a connect that fails after validation (the launch, the session, the
\* handshake or the catalog fetch raises) reports the fault and leaves the
\* client disconnected: no session, flag false, empty path, nothing held.
C16_FailedConnectLeavesNothing ==
  (attempt.made /\ RecognizedScript(attempt.path) /\ attempt.fail_at # "none") =>
    /\ handler_result.kind = "error"
    /\ Disconnected

\* C17: connect with a path that is neither a .py nor a .js script raises its
\* ValueError before anything is launched: the fault is reported, and the
\* fields, the exit stack and the number of launched subprocesses are what
\* they were when connect was entered.
C17_BadPathRejected ==
  (attempt.made /\ ~RecognizedScript(attempt.path)) =>
    /\ handler_result = [kind |-> "error",
                         message |-> "Server script must be a .py or .js file"]
    /\ NowSnapshot = attempt.before

C17_Witness ==
  /\ attempt.made
  /\ attempt.path = "notes.txt"
  /\ surface = "ws"
  /\ Disconnected
  /\ launched = 0

\* C18: an owner never holds more than one live subprocess: a connect on a
\* client that is already connected releases the old one first.
C18_AtMostOneSubprocess == Held(exit_stack) <= 1

\* C19: after cleanup (POST /disconnect of a connected client, the end of a
\* websocket session, shutdown) the client is disconnected: flag false, session
\* and path cleared, nothing held by the exit stack; and a client in that
\* state reads no catalog: the listings are empty, read_resource and
\* get_prompt answer "Not connected".
CleanedUp ==
  \/ handler \in {"ws_close", "http_shutdown"}
  \/ handler = "http_disconnect" /\ handler_result.kind = "disconnected"

C19_CleanupDisconnects ==
  CleanedUp =>
    /\ Disconnected
    /\ op.name \in {"list_tools", "list_resources", "list_prompts"} =>
         op_result = [kind |-> "list", message |-> ""]
    /\ op.name \in {"read_resource", "get_prompt"} =>
         op_result = [kind |-> "error", message |-> "Not connected"]

C19_Witness ==
  /\ handler = "http_disconnect"
  /\ handler_result.kind = "disconnected"
  /\ launched = 2
  /\ op.name = "list_tools"
  /\ op_result.kind = "list"

\* The results that report the not-connected condition.
NotConnectedReports ==
  {[kind |-> "response", message |-> "Not connected to MCP server"],
   [kind |-> "text", message |-> "Error: Not connected"],
   [kind |-> "error", message |-> "Not connected"],
   [kind |-> "error", message |-> "Not connected to MCP server"]}

Listings == {"list_tools", "list_resources", "list_prompts"}

\* C20 (as amended): on a disconnected client process_query, call_tool,
\* read_resource, get_prompt and the websocket handlers chat, read_resource
\* and get_prompt return at once with a result that reports "not connected",
\* and the catalog listings return at once with an empty catalog; none of them
\* launches a subprocess or changes the connection.
C20_FailFast ==
  op.name # "none" =>
    /\ NowSnapshot = op.before
    /\ Disconnected =>
         IF op.name \in Listings
           THEN op_result = [kind |-> "list", message |-> ""]
           ELSE op_result \in NotConnectedReports

\* C20 as stated: every operation, the listings included, reports the
\* not-connected condition.
C20_AsStated ==
  (op.name # "none" /\ Disconnected) =>
    /\ NowSnapshot = op.before
    /\ op_result \in NotConnectedReports

C20_Witness ==
  /\ Disconnected
  /\ handler = "http_disconnect"
  /\ handler_result.kind = "disconnected"
  /\ op.name = "read_resource"
  /\ op_result.message = "Not connected"

----------------------------------------------------------------------------
\* C21: the catalog a connect returns is the answer to a list request sent to
\* the session that connect has just opened, the one talking to the newest
\* subprocess; after a disconnect and a connect it is never the catalog an
\* earlier subprocess served.
C21_FreshCatalog ==
  handler_result.kind = "connected" =>
    /\ bound = launched
    /\ list_log # <<>>
    /\ list_log[Len(list_log)] = launched
    /\ \A i \in 1..(Len(list_log) - 1) : list_log[i] < launched
    /\ catalog = catalogs[launched]

C21_Witness ==
  /\ handler = "http_connect"
  /\ handler_result.kind = "connected"
  /\ attempt.before = [client |-> FreshClient, launched |-> 1]
  /\ list_log = <<1, 2>>
  /\ catalogs = <<"v1", "v2">>
  /\ catalog = "v2"

----------------------------------------------------------------------------
\* Serving properties (SpecServe, SpecServeFair)

InFlight == {t \in DOMAIN q : q[t] # "none"}

\* C22: at most one process_query call is in flight on a client at any time,
\* whether the queries come as websocket chat messages or as HTTP /chat
\* requests on the shared client.
C22_OneQueryAtATime == Cardinality(InFlight) <= 1

LoopEnded == ws_pc \in {"except", "finally"}

Released ==
  /\ ws_pc = "closed"
  /\ cleanups = 1
  /\ session = NoSession
  /\ ~connected
  /\ Held(exit_stack) = 0

\* C23: however the message loop of a websocket session ends (a disconnect
\* message, the peer closing the socket, a fault out of a handler or out of a
\* query, a cancellation), the cleanup of the session is then performed, once,
\* and afterwards the session holds no subprocess.
C23_SessionReleased ==
  /\ [](cleanups <= 1)
  /\ [](ws_pc = "closed" => Released)
  /\ [](ws_pc \in {"receive", "chat", "request", "send", "except", "finally"} =>
         cleanups = 0)
  /\ (LoopEnded ~> Released)

C23_Witness ==
  /\ Released
  /\ peer_gone
  /\ launched = 2

----------------------------------------------------------------------------
\* C24: an elicitation_response decides only the exchange it was sent for: a
\* response to an exchange that has already resolved never becomes the
\* outcome of a later exchange of the session.
C24_ResponseMatchesExchange ==
  answer # NoMessage => answer.for = exchange

----------------------------------------------------------------------------
\* C25: while the elicitation exchange of a tool call is pending,
\* process_query is suspended at that call: it is the only invocation in
\* flight, and no step calls the Model Gateway, dispatches another tool
\* invocation or adds a turn to the transcript before the exchange resolves.
C25_SuspendedWhilePending ==
  /\ [](pending = "pending" =>
          /\ pc = "tool"
          /\ inflight = {response.content[idx].id})
  /\ [][pending = "pending" =>
          /\ model_calls' = model_calls
          /\ model_log' = model_log
          /\ call_log' = call_log
          /\ messages' = messages]_vars

C25_Witness ==
  /\ pending = "pending"
  /\ idx < Len(response.content)
  /\ response.content[idx + 1].type = "tool_use"
  /\ model_calls = 1

----------------------------------------------------------------------------
MaxSlices == ElicitTimeout \div SliceLength

\* C26: the wait loop waits in slices of at most 30 seconds that never end
\* later than the deadline, 120 seconds after the prompt was sent; the deadline
\* does not move while the loop waits, whatever messages it takes; when no
\* message is delivered the slices are at most four, each 30 seconds long,
\* and the exchange resolves by timeout 120 seconds after the request.
C26_BoundedSlices ==
  /\ [](e_pc = "waiting" =>
          /\ now <= slice_deadline
          /\ slice_deadline - now <= SliceLength
          /\ slice_deadline <= start_time + ElicitTimeout
          /\ dropped = 0 =>
               \E k \in 1..MaxSlices : slice_deadline = start_time + k * SliceLength)
  /\ [][(e_pc = "waiting" /\ e_pc' = "waiting") => start_time' = start_time]_vars
  /\ [][(Pending /\ e_pc' = "resolved" /\ answer' = NoMessage
            /\ resolved_by' # "exception") =>
          /\ now = ElicitTimeout
          /\ now - start_time <= ElicitTimeout]_vars

C26_Witness ==
  /\ e_pc = "waiting"
  /\ dropped = 1
  /\ start_time = 0
  /\ now = 110
  /\ slice_deadline = 120

----------------------------------------------------------------------------
\* C27: the outcome handed to the suspended tool has an action among accept,
\* decline and cancel, and has content only when the action is accept: a
\* response without an action, or with an action that is none of the three,
\* is delivered as cancel, and the data sent with a decline or a cancel is
\* not delivered.
C27_OutcomeShape ==
  /\ \A i \in 1..Len(outcomes) :
       LET r == outcomes[i].result
       IN  /\ DOMAIN r \subseteq {"action", "content"}
           /\ r.action \in {"accept", "decline", "cancel"}
           /\ "content" \in DOMAIN r <=> r.action = "accept"
  /\ (e_pc = "resolved" /\ answer # NoMessage) =>
       IF "action" \notin DOMAIN answer THEN LastOutcome = [action |-> "cancel"]
       ELSE IF answer.action = "accept"
         THEN LastOutcome = [action |-> "accept", content |-> answer.data]
       ELSE IF answer.action = "decline" THEN LastOutcome = [action |-> "decline"]
       ELSE LastOutcome = [action |-> "cancel"]

C27_Witness ==
  /\ e_pc = "resolved"
  /\ answer # NoMessage
  /\ "data" \in DOMAIN answer
  /\ answer.action = "later"
  /\ LastOutcome = [action |-> "cancel"]
  /\ Len(outcomes) = 2
  /\ outcomes[1].result = [action |-> "decline"]

----------------------------------------------------------------------------
ResultBlocksOf(id) ==
  {b \in Range(tool_results) \cup FoldedBlocks : b.tool_use_id = id}

\* C28: nothing is retried: an invocation block is handed to call_tool once,
\* also when the call returns a fault or raises; the gateway is not called
\* again after a call of it failed; a call that returned, fault or not, has
\* left exactly one result block for the transcript, and a call that raised
\* has ended the query at once, without a response.
C28_NoRetry ==
  /\ \A i, j \in 1..Len(call_log) : call_log[i] = call_log[j] => i = j
  /\ model_calls <= Len(model_log) + 1
  /\ model_calls > Len(model_log) => pc = "raised"
  /\ raised_by # "none" => (pc = "raised" /\ inflight = {} /\ result = NoResult)
  /\ LET blocks == Range(tool_results) \cup FoldedBlocks
     IN  \A i \in 1..Len(call_log) :
           LET mine == {b \in blocks : b.tool_use_id = call_log[i]}
           IN  IF call_log[i] \in inflight
                  \/ (raised_by = "call_tool" /\ i = Len(call_log))
                 THEN mine = {}
                 ELSE mine = {[type |-> "tool_result", tool_use_id |-> call_log[i],
                               content |-> tool_calls[i].result]}

C28_Witness ==
  /\ pc = "raised"
  /\ raised_by = "call_tool"
  /\ Len(call_log) = 2
  /\ tool_calls = <<[name |-> "get_forecast", arguments |-> "Denver",
                      result |-> "Error executing tool"]>>

----------------------------------------------------------------------------
\* C29: every tool invocation of a query goes through the invoke-tool
\* operation of the connected session, self.session, to the subprocess that
\* connect launched, with or without an elicitation callback.
C29_ThroughSession == pc = "tool" => tool_path = "direct"

----------------------------------------------------------------------------
\* The invocation block the gateway emitted with this identifier.
BlockOf(id) ==
  CHOOSE b \in UNION {Range(model_log[k].content) : k \in 1..Len(model_log)} :
    b.type = "tool_use" /\ b.id = id

\* The calls of the query that have returned.
Executed ==
  Len(call_log) - Cardinality(inflight) - (IF raised_by = "call_tool" THEN 1 ELSE 0)

\* C30: the call log of a query holds one record per invocation block whose
\* call has returned, in the order of execution over all rounds; the name and
\* the arguments of a record are those of its block, its result is the content
\* of the result block that carries the block's identifier; the log only
\* grows, by one record appended at a time, until the query is over, and the
\* response returns it whole.
C30_CallLogAppendOnly ==
  /\ [](Len(tool_calls) = Executed)
  /\ [](\A i \in 1..Len(tool_calls) :
          /\ tool_calls[i].name = BlockOf(call_log[i]).name
          /\ tool_calls[i].arguments = BlockOf(call_log[i]).input
          /\ ResultBlocksOf(call_log[i]) =
               {[type |-> "tool_result", tool_use_id |-> call_log[i],
                 content |-> tool_calls[i].result]})
  /\ [](Returned => result.tool_calls = tool_calls)
  /\ [][pc' # "idle" =>
          /\ IsPrefix(tool_calls, tool_calls')
          /\ Len(tool_calls') <= Len(tool_calls) + 1]_vars

C30_Witness ==
  /\ Returned
  /\ ToolRounds = 2
  /\ Len(result.tool_calls) = 2
  /\ result.tool_calls[1].name = "plan_trip"
  /\ result.tool_calls[1].result = "Trip Plan for Denver"
  /\ result.tool_calls[2].name = "get_forecast"
  /\ result.tool_calls[2].result = "Sunny"

----------------------------------------------------------------------------
\* C31: the transcript of a query is append-only: every step of process_query
\* leaves the turns already in the transcript at their position and with their
\* content, and a step that calls the Model Gateway hands it the transcript as
\* it is, so each call receives a transcript the previous call's is a prefix of.
C31_TranscriptAppendOnly ==
  [][/\ pc' # "idle" => IsPrefix(messages, messages')
     /\ model_calls' > model_calls => (pc = "model" /\ messages' = messages)
     /\ (pc = "model" /\ model_calls > 0) =>
          Len(messages) = 1 + 2 * model_calls]_vars

C31_Witness ==
  /\ pc = "model"
  /\ model_calls = 2
  /\ Len(messages) = 5
  /\ messages[2].content # messages[4].content

----------------------------------------------------------------------------
\* The client object another session than s refers to, with that session's
\* own state, is left as it was by the step.
Untouched(t) ==
  /\ ws_sessions'[t] = ws_sessions[t]
  /\ ws_sessions[t].client # 0 =>
       clients'[ws_sessions[t].client] = clients[ws_sessions[t].client]

\* C32: websocket sessions share no mutable state: two sessions being served
\* never refer to the same client object, and every step (accept, connect,
\* chat, tool round, elicitation, leaving the loop, cleanup) is the step of one
\* session and leaves the client, its connection state and the transcript of
\* every other session unchanged.
C32_SessionsIsolated ==
  /\ [](\A s, t \in WsSessions :
          (s # t /\ ws_sessions[s].client # 0) =>
             ws_sessions[s].client # ws_sessions[t].client)
  /\ [][\E s \in WsSessions : \A t \in WsSessions \ {s} : Untouched(t)]_vars

C32_Witness ==
  /\ ws_sessions[1].at = "chat"
  /\ Len(ws_sessions[1].messages) = 3
  /\ ClientAt(1).server_path = "weather.py"
  /\ ws_sessions[2].at = "elicit"
  /\ Len(ws_sessions[2].messages) = 1
  /\ ClientAt(2).server_path = "server.js"

----------------------------------------------------------------------------
\* The handler of the chat message in hand has run to its end: the message
\* loop is back at receive_json().
ChatHandled == ws_pc = "receive" /\ ws_turn.msg = "chat"

\* C33: a websocket chat message gets exactly one terminal reply, a response
\* or an error and never both: nothing more than one reply is ever sent for
\* it, one has been sent when its handler has run to its end (the socket
\* accepted the send), and after a fault of the Model Gateway during the query
\* the reply is an error, not a response.
C33_OneTerminalReply ==
  ws_turn.msg = "chat" =>
    /\ Len(ws_turn.sent) <= 1
    /\ \A i \in 1..Len(ws_turn.sent) : ws_turn.sent[i] \in {"response", "error"}
    /\ ChatHandled => Len(ws_turn.sent) = 1
    /\ (ChatHandled /\ ws_turn.outcome = "final") => ws_turn.sent = <<"response">>
    /\ (ChatHandled /\ ws_turn.outcome # "final") => ws_turn.sent = <<"error">>
    /\ ws_turn.outcome = "model_fault" => "response" \notin Range(ws_turn.sent)

C33_Witness ==
  /\ ChatHandled
  /\ ws_turn.outcome = "model_fault"
  /\ ws_turn.sent = <<"error">>

----------------------------------------------------------------------------
\* The messages of other kinds still queued on the socket.
Queued == {inbox[i].n : i \in {j \in 1..Len(inbox) : inbox[j].type \in OtherTypes}}

\* C34: a message of another kind than elicitation_response that the wait loop
\* of a pending exchange receives is consumed and dropped: it goes to no
\* handler, during the exchange or after it, and it is not queued again; the
\* step that takes it leaves the exchange pending (or ends it by the deadline)
\* and the session open, also when the message is a "disconnect".
C34_OthersDropped ==
  /\ [](consumed \cap dispatched = {})
  /\ [](consumed \cap Queued = {})
  /\ [](dropped <= Cardinality(consumed))
  /\ [](e_pc = "ended" =>
          \/ (inbox = <<>> /\ closed)
          \/ (inbox # <<>> /\ Head(inbox).type = "disconnect"
                /\ Head(inbox).n \in dispatched \ consumed))
  /\ [][consumed' # consumed =>
          /\ e_pc = "waiting"
          /\ e_pc' = "waiting" \/ (e_pc' = "resolved" /\ resolved_by' = "loop_timeout")
          /\ dispatched' = dispatched]_vars

C34_Witness ==
  /\ e_pc = "idle"
  /\ closed = FALSE
  /\ exchange = 1
  /\ consumed = {1}
  /\ dispatched = {2}
  /\ outcomes[1].result.action = "accept"

----------------------------------------------------------------------------
\* C35: a fault raised by the elicitation callback while an exchange is
\* pending (its send or its receive raises, as when the peer closed the
\* socket) resolves the exchange as a bare cancel inside the handler: the
\* callback has returned nothing, the tool is handed action cancel as the one
\* outcome of the exchange, and a pending exchange is never left in another way
\* than by its resolution, so the tool call and the query go on.  Once the
\* peer has closed the socket with nothing left to receive, the exchange ends
\* as cancel, by the fault or by a deadline that was due at the same time.
C35_FaultCancels ==
  /\ [](resolved_by = "exception" =>
          /\ e_pc = "resolved"
          /\ callback_result = NoCallbackResult
          /\ answer = NoMessage
          /\ Len(outcomes) = exchange
          /\ outcomes[exchange] = [exchange |-> exchange, result |-> [action |-> "cancel"]])
  /\ [](e_pc = "ended" => resolved_by = "none")
  /\ [][(Pending /\ closed /\ inbox = <<>> /\ e_pc' # e_pc) =>
          /\ e_pc' = "resolved"
          /\ resolved_by' \in {"exception", "wait_for_timeout", "loop_timeout"}
          /\ outcomes'[exchange].result = [action |-> "cancel"]]_vars
  /\ [][(Pending /\ ~Pending') => e_pc' = "resolved"]_vars

C35_Witness ==
  /\ e_pc = "resolved"
  /\ resolved_by = "exception"
  /\ closed
  /\ prompts = <<1>>
  /\ dropped = 1
  /\ LastOutcome = [action |-> "cancel"]

----------------------------------------------------------------------------
\* cleanup() ran on the client while this query was suspended at an await.
CleanedUpInQuery == had_session /\ session = NoSession /\ pc # "idle"

\* C36: when cleanup of the shared client interleaves with a query in flight,
\* every tool invocation the query dispatches afterwards gets the string
\* "Error: Not connected" as its result block and nothing is sent to the
\* released session; and the query is not aborted by a call on the session: it
\* goes on to its final turn.
C36_QueryOutlivesCleanup ==
  /\ [][(session = NoSession /\ Len(call_log') > Len(call_log)) =>
          /\ inflight' = inflight
          /\ pc' = "round"
          /\ tool_results' = Append(tool_results,
                                    [type |-> "tool_result", tool_use_id |-> CurrentBlock.id,
                                     content |-> "Error: Not connected"])]_vars
  /\ [](CleanedUpInQuery /\ pc = "raised" => raised_by = "model")

----------------------------------------------------------------------------
\* C37: whenever the connected flag of a client is set, the client holds a
\* session and its server path is the path given to the last connect that
\* succeeded on it; and cleanup clears the flag, the session and the path
\* together.
C37_ConnectedMeansSession ==
  /\ connected => (session # NoSession /\ server_path = connected_to)
  /\ CleanedUp => (~connected /\ session = NoSession /\ server_path = "")

\* C39: a sampling request approved with the empty string as canned text is
\* handled as one approved without a canned text: the Model Gateway is called
\* once, and the answer is the text of its completion, not the empty text.
C39_EmptyCannedTextDelegates ==
  (Approved /\ s_approval.response_text = "") =>
    /\ s_pc \in {"gateway", "done"}
    /\ Len(gateway_log) = 1
    /\ gateway_log[1] = GatewayCall(s_params, s_request.messages)
    /\ s_pc = "done" => s_completion # NoCompletion
    /\ s_completion.kind = "message" =>
         s_result = [kind |-> "completion",
                     text |-> Concatenated(TextsIn(s_completion.content))]

C39_Witness ==
  /\ Approved
  /\ s_approval.response_text = ""
  /\ s_path = "fastmcp"
  /\ s_pc = "done"
  /\ s_completion.kind = "message"
  /\ s_result.text = "ab"

\* The tool rounds a query has completed: each appends two turns to the seed.
RoundsDone == (Len(messages) - 1) \div 2

NoCallRaises == pc # "raised"

\* C38: when every call process_query awaits returns, and the model stops
\* asking for tools after finitely many rounds, process_query returns, having
\* made exactly N+1 Model Gateway calls for its N tool rounds; the loop has no
\* round limit of its own: every needs-tool answer of the gateway is followed
\* by another round, and only another stop condition ends the query.
C38_QueryTerminates ==
  /\ []((pc = "returned" /\ messages # <<>>) =>
          /\ model_calls = RoundsDone + 1
          /\ Len(model_log) = model_calls
          /\ response.stop_reason # "tool_use")
  /\ [][(Len(model_log') > Len(model_log)
          /\ model_log'[Len(model_log')].stop_reason = "tool_use") => pc' = "round"]_vars
  /\ ([]NoCallRaises => ((pc # "idle") ~> (pc = "returned")))

C38_Witness ==
  /\ pc = "returned"
  /\ RoundsDone = 2
  /\ model_calls = 3
  /\ Len(tool_calls) = 2

====
